---- MODULE Spec2Model ----
(***************************************************************************)
(* LibRecommender: the dataset pipeline (libreco/data/dataset.py), the     *)
(* alternating-least-squares model family (libreco/algorithms/ALS.py) and  *)
(* the serialization module (libreco/utils/serialization.py).              *)
(*                                                                         *)
(* Numbers are integers: labels, factor entries, scores and similarities   *)
(* are drawn from small integer sets; float32 keeps its 24-bit mantissa.   *)
(***************************************************************************)
EXTENDS Integers, Sequences, FiniteSets, TLC

VARIABLES
    attrs,                      \* class -> the class's own attribute dict
    sparse_unique_vals,         \* the one dict object created at Dataset (dataset.py:22)
    multi_sparse_unique_vals,   \* the one dict object created at Dataset (dataset.py:23)
    train_called,               \* class -> the class's own train_called entry
    result,                     \* the last dataset call: its arguments and what it gave
    trainset_calls,             \* history: the classes build_trainset has been called on
    chk,                        \* the last _check_col_names call and its outcome
    model,                      \* the ALS object: its class and hyper-parameters
    dataset,                    \* self.dataset
    default_prediction,         \* self.default_prediction
    pu,                         \* the user factors (self.pu, self.X): row u at pu[u + 1]
    qi,                         \* the item factors (self.qi, self.Y): row i at qi[i + 1]
    pc,                         \* where fit is: "none", "idle", "user", "item", "done"
    epoch,                      \* the epoch fit is in
    row,                        \* the position in the half-epoch's loop
    out,                        \* the last predict or recommend_user call and its result
    ser,                        \* the last serialization call: its input and what it wrote
    cmp,                        \* one dataset fitted by ALS_ranking on both paths, and the scores
    cg,                         \* a least_squares_cg call: its position, its locals, what it did
    tf                          \* a save_model_tf_serving call: the directory, the prompt, the end

dataVars == <<attrs, train_called, sparse_unique_vals, multi_sparse_unique_vals, result,
             trainset_calls>>
alsVars == <<model, dataset, default_prediction, pu, qi, pc, epoch, row, out>>
vars == <<attrs, train_called, sparse_unique_vals, multi_sparse_unique_vals, result,
         trainset_calls, chk, model, dataset, default_prediction, pu, qi, pc, epoch, row, out, ser, cmp, cg, tf>>

----------------------------------------------------------------------------
(* Bounds of the model.                                                    *)

MaxRows == 2
MaxHeaderLen == 3
MaxEpochs == 1
MaxRec == 3
NFactors == 1
MaxNnz == 3
MaxK == 4
SimRows == 2
ConsumedUsers == 2
MaxCgSteps == 3
MaxFitEpochs == 2

----------------------------------------------------------------------------
(* Generic helpers.                                                        *)

Range(s) == { s[k] : k \in 1..Len(s) }

Min2(a, b) == IF a <= b THEN a ELSE b

Perms(n) == { p \in [1..n -> 1..n] : \A a, b \in 1..n : a # b => p[a] # p[b] }

RECURSIVE SortedSeq(_)
\* numpy.unique / sorted(set(...)): the distinct values in ascending order
SortedSeq(S) ==
    IF S = {} THEN <<>>
    ELSE LET m == CHOOSE x \in S : \A y \in S : x <= y
         IN  <<m>> \o SortedSeq(S \ {m})

\* Python's three attribute states: absent from the class dict, None, a value
Unset == [tag |-> "unset", val |-> <<>>]
None == [tag |-> "None", val |-> <<>>]
Some(v) == [tag |-> "val", val |-> v]

\* truthiness of an optional list: None and the empty list are falsy
Truthy(x) == x.tag = "val" /\ x.val # <<>>

----------------------------------------------------------------------------
(* Dataset._check_col_names (dataset.py:44-54).                            *)

ColNames == {"user", "item", "label", "f", "g"}

Modes == {"train", "test"}

RECURSIVE SeqsUpTo(_, _)
\* every sequence over S of length at most n
SeqsUpTo(S, n) ==
    IF n = 0 THEN { <<>> }
    ELSE LET shorter == SeqsUpTo(S, n - 1)
         IN  shorter \cup { Append(s, x) : s \in { t \in shorter : Len(t) = n - 1 }, x \in S }

\* the column headers handed to _check_col_names
CheckHeaders == SeqsUpTo(ColNames, MaxHeaderLen)

\* dataset.py:51-54: the asserted expression is the parenthesised pair
\* (condition, message); Python asserts the pair itself, and a pair is
\* truthy whatever its first component is
LabelAssertionHolds(cols) ==
    LET asserted == << "label" \in Range(cols), TRUE >>
    IN  Len(asserted) # 0

\* the mutant: columns[1] is not looked at
CheckColNames_FirstOnly(cols, mode) ==
    IF Len(cols) < 2 THEN "IndexError"
    ELSE IF ~(cols[1] = "user") THEN "ValueError"
    ELSE IF mode = "train" /\ ~LabelAssertionHolds(cols) THEN "AssertionError"
    ELSE "ok"

\* data.columns[0] and data.columns[1] are read first (IndexError on a
\* header shorter than two), then the names are compared, then the assert
CheckColNames(cols, mode) ==
    IF Len(cols) < 2 THEN "IndexError"
    ELSE IF ~(cols[1] = "user" /\ cols[2] = "item") THEN "ValueError"
    ELSE IF mode = "train" /\ ~LabelAssertionHolds(cols) THEN "AssertionError"
    ELSE "ok"

NoCheck == [cols |-> <<>>, mode |-> "none", outcome |-> "none"]

\* one direct call of the static method
CheckCall ==
    /\ \E cols \in CheckHeaders, mode \in Modes :
          chk' = [cols |-> cols, mode |-> mode, outcome |-> CheckColNames(cols, mode)]
    /\ UNCHANGED <<dataVars, alsVars, ser, cmp, cg, tf>>


----------------------------------------------------------------------------
(* Interaction tables: an ordered header and rows aligned with it.         *)

\* the raw rows of two users, two items and their feature values
RowPool ==
    { [user |-> 1, item |-> 11, label |-> 3, f |-> 5, g |-> 5],
      [user |-> 2, item |-> 12, label |-> 3, f |-> 6, g |-> 7] }

\* rows of one user and one item that differ in the label alone;
\* 16777217 = 2^24 + 1 is the smallest positive integer float32 cannot hold
LabelRowPool ==
    { [user |-> 1, item |-> 11, label |-> 3, f |-> 5, g |-> 5],
      [user |-> 1, item |-> 11, label |-> 16777217, f |-> 5, g |-> 5] }

DataHeaders ==
    { <<"user", "item", "label">>,
      <<"user", "item">>,
      <<"item", "user", "label">>,
      <<"user", "item", "label", "f", "g">>,
      <<"user", "item", "f", "g">>,
      <<"user", "item", "label", "f">> }

LabelHeaders ==
    { <<"user", "item", "label">>,
      <<"user", "item">> }

MkTable(header, rs) ==
    [cols |-> header,
     rows |-> [r \in 1..Len(rs) |-> [k \in 1..Len(header) |-> rs[r][header[k]]]]]

\* one-row tables over every header: the calls that set and read class state
DataTables == { MkTable(h, <<rw>>) : h \in DataHeaders, rw \in RowPool }

\* tables of up to MaxRows rows: the calls whose label arrays are looked at
LabelTables == { MkTable(h, rs) : h \in LabelHeaders, rs \in SeqsUpTo(LabelRowPool, MaxRows) }

\* "name" in data.columns
HasCol(t, c) == \E k \in 1..Len(t.cols) : t.cols[k] = c

ColPos(t, c) == CHOOSE k \in 1..Len(t.cols) : t.cols[k] = c

\* data[name]: the column's values in row order
Column(t, c) == [r \in 1..Len(t.rows) |-> t.rows[r][ColPos(t, c)]]

\* data.sample(frac=1, random_state=seed).reset_index(drop=True): the rows
\* in the order the seed's permutation gives
Shuffled(t, perm) == [cols |-> t.cols, rows |-> [r \in 1..Len(t.rows) |-> t.rows[perm[r]]]]

Identity(n) == [k \in 1..n |-> k]

\* the row orders a call can produce: the table's own without shuffle
RowOrders(t, shuffle) == IF shuffle THEN Perms(Len(t.rows)) ELSE { Identity(Len(t.rows)) }

\* numpy's cast to float32 of an integer below 2^25 in magnitude: exact up
\* to 2^24, above it rounded to the nearest even integer, ties to the one
\* whose mantissa is even
ToFloat32(x) ==
    LET a == IF x < 0 THEN -x ELSE x
        r == IF a <= 16777216 \/ a % 2 = 0 THEN a
             ELSE IF ((a - 1) \div 2) % 2 = 0 THEN a - 1 ELSE a + 1
    IN  IF x < 0 THEN -r ELSE r

\* data["label"].to_numpy(dtype=np.float32)
LabelsOf(t) == [r \in 1..Len(t.rows) |-> ToFloat32(Column(t, "label")[r])]

\* np.zeros(len(data))
Zeros(n) == [r \in 1..n |-> 0]


----------------------------------------------------------------------------
(* The Dataset classes and their class-level attributes (dataset.py:16-29, *)
(* 93, 232).  A class attribute is read through the class and then its     *)
(* base; an assignment cls.x = v writes the class's own dict; the two      *)
(* dicts are created once, at Dataset, and only ever mutated in place.     *)

Classes == {"Dataset", "DatasetPure", "DatasetFeat"}

Parent == [c \in Classes |-> "Dataset"]

AttrNames == {"user_unique_vals", "item_unique_vals", "dense_col", "sparse_col", "multi_sparse_col"}

RECURSIVE Lookup(_, _, _)
\* cls.<a>: the first class on the way up that has the attribute
Lookup(A, c, a) ==
    IF A[c][a].tag # "unset" \/ c = "Dataset" THEN A[c][a] ELSE Lookup(A, Parent[c], a)

RECURSIVE LookupCalled(_, _)
\* cls.train_called
LookupCalled(T, c) ==
    IF T[c] # "unset" \/ c = "Dataset" THEN T[c] = "True" ELSE LookupCalled(T, Parent[c])

\* the class-level state as one value
ClassState == [attrs |-> attrs, called |-> train_called,
               suv |-> sparse_unique_vals, msuv |-> multi_sparse_unique_vals]

\* d[key] = v on a dict
DictSet(d, key, v) == [k \in DOMAIN d \cup {key} |-> IF k = key THEN v ELSE d[k]]

EmptyDict == [k \in {} |-> <<>>]

\* cls.<a> = v
SetAttr(S, c, a, v) == [S EXCEPT !.attrs[c][a] = v]

\* an element of a multi_sparse_col argument: a list of names, or one name
Field(names) == [isList |-> TRUE, cols |-> names]
Name(n) == [isList |-> FALSE, cols |-> <<n>>]

\* [multi_sparse_col]: the flat list of names becomes the one field
WrapFlat(list) == << Field([k \in 1..Len(list) |-> list[k].cols[1]]) >>

\* Dataset._set_feature_col (dataset.py:63-71)
SetFeatureCol(S, c, sparse_col, dense_col, multi_sparse_col) ==
    LET S1 == SetAttr(S, c, "sparse_col", IF ~Truthy(sparse_col) THEN None ELSE sparse_col)
        S2 == SetAttr(S1, c, "dense_col", IF ~Truthy(dense_col) THEN None ELSE dense_col)
    IN  IF Truthy(multi_sparse_col)
        THEN IF ~(\A k \in 1..Len(multi_sparse_col.val) : multi_sparse_col.val[k].isList)
             THEN SetAttr(S2, c, "multi_sparse_col", Some(WrapFlat(multi_sparse_col.val)))
             ELSE SetAttr(S2, c, "multi_sparse_col", multi_sparse_col)
        ELSE S2

RECURSIVE SetSparseCols(_, _, _, _)
\* dataset.py:75-77: column by column; train_data[col] raises KeyError on a
\* column the table does not have, after the earlier columns were stored
SetSparseCols(S, cols, k, t) ==
    IF k > Len(cols) THEN [S |-> S, outcome |-> "ok"]
    ELSE IF ~HasCol(t, cols[k]) THEN [S |-> S, outcome |-> "KeyError"]
    ELSE SetSparseCols([S EXCEPT !.suv = DictSet(S.suv, cols[k], SortedSeq(Range(Column(t, cols[k]))))],
                       cols, k + 1, t)

\* the values of all the columns of one multi-sparse field
FieldValues(t, field) == UNION { Range(Column(t, field.cols[j])) : j \in 1..Len(field.cols) }

RECURSIVE SetMultiSparse(_, _, _, _)
\* dataset.py:79-87: field by field, keyed by the field's first column
SetMultiSparse(S, fields, k, t) ==
    IF k > Len(fields) THEN [S |-> S, outcome |-> "ok"]
    ELSE IF \E j \in 1..Len(fields[k].cols) : ~HasCol(t, fields[k].cols[j])
         THEN [S |-> S, outcome |-> "KeyError"]
    ELSE SetMultiSparse([S EXCEPT !.msuv = DictSet(S.msuv, fields[k].cols[1],
                                                    SortedSeq(FieldValues(t, fields[k])))],
                        fields, k + 1, t)

\* Dataset._set_sparse_unique_vals (dataset.py:73-90)
SetSparseUniqueVals(S, c, t) ==
    LET sc == Lookup(S.attrs, c, "sparse_col")
        r1 == IF Truthy(sc) THEN SetSparseCols(S, sc.val, 1, t) ELSE [S |-> S, outcome |-> "ok"]
        mc == Lookup(r1.S.attrs, c, "multi_sparse_col")
        r2 == IF r1.outcome # "ok" THEN r1
              ELSE IF Truthy(mc) THEN SetMultiSparse(r1.S, mc.val, 1, t)
              ELSE r1
    IN  IF r2.outcome # "ok" THEN r2
        ELSE [S |-> SetAttr(SetAttr(r2.S, c, "user_unique_vals", Some(SortedSeq(Range(Column(t, "user"))))),
                            c, "item_unique_vals", Some(SortedSeq(Range(Column(t, "item"))))),
              outcome |-> "ok"]


\* get_user_item_sparse_indices (libreco/feature): the rows' identifiers are
\* mapped through the vocabulary recorded on the class; in mode "test"
\* identifiers unseen in training are tolerated; without a vocabulary
\* there is nothing to map through
IndicesOutcome(S, c, t, mode) ==
    IF mode = "test" /\ ( Lookup(S.attrs, c, "user_unique_vals").tag # "val"
                          \/ Lookup(S.attrs, c, "item_unique_vals").tag # "val" )
    THEN "TypeError"
    ELSE "ok"

\* the columns the class's sparse and multi-sparse configuration names
ConfiguredSparse(S, c) ==
    LET sc == Lookup(S.attrs, c, "sparse_col")
        mc == Lookup(S.attrs, c, "multi_sparse_col")
    IN  (IF Truthy(sc) THEN Range(sc.val) ELSE {})
        \cup (IF Truthy(mc) THEN UNION { Range(mc.val[k].cols) : k \in 1..Len(mc.val) } ELSE {})

\* merge_sparse_indices (libreco/feature), called when cls.sparse_col or
\* cls.multi_sparse_col is set: every configured column is read from the table
MergeSparseOutcome(S, c, t) ==
    IF \E col \in ConfiguredSparse(S, c) : ~HasCol(t, col) THEN "KeyError" ELSE "ok"

\* data[cls.dense_col].to_numpy() if cls.dense_col else None
DenseOutcome(S, c, t) ==
    LET dc == Lookup(S.attrs, c, "dense_col")
    IN  IF Truthy(dc) /\ (\E col \in Range(dc.val) : ~HasCol(t, col)) THEN "KeyError" ELSE "ok"

Raised(S, e) == [S |-> S, outcome |-> e, labels |-> <<>>]

\* the mutant: the dummy labels are sized by the columns, not the rows
TestLabels_ZerosPerColumn(t, perm) ==
    IF HasCol(t, "label") THEN LabelsOf(Shuffled(t, perm)) ELSE Zeros(Len(t.cols))

\* dataset.py:183-188 and 418-423, after the optional shuffle
TestLabels(t, perm) ==
    IF HasCol(t, "label") THEN LabelsOf(Shuffled(t, perm)) ELSE Zeros(Len(Shuffled(t, perm).rows))

\* DatasetPure.build_trainset (dataset.py:124-145)
PureTrainRun(S, c, t, perm) ==
    LET ck == CheckColNames(t.cols, "train")
        r  == SetSparseUniqueVals(S, c, t)
        t2 == Shuffled(t, perm)
    IN  IF ck # "ok" THEN Raised(S, ck)
        ELSE IF r.outcome # "ok" THEN Raised(r.S, r.outcome)
        ELSE IF IndicesOutcome(r.S, c, t2, "train") # "ok"
             THEN Raised(r.S, IndicesOutcome(r.S, c, t2, "train"))
        ELSE IF ~HasCol(t2, "label") THEN Raised(r.S, "KeyError")
        ELSE [S |-> r.S, outcome |-> "ok", labels |-> LabelsOf(t2)]

\* the mutant: the test call records the vocabulary of its table, as the
\* train call does
PureTestRun_SetsVocabulary(S, c, t, perm) ==
    LET ck == CheckColNames(t.cols, "test")
        r  == SetSparseUniqueVals(S, c, t)
    IN  IF ck # "ok" THEN Raised(S, ck)
        ELSE [S |-> r.S, outcome |-> "ok", labels |-> TestLabels(t, perm)]

\* DatasetPure.build_testset (dataset.py:173-193)
PureTestRun(S, c, t, perm) ==
    LET ck == CheckColNames(t.cols, "test")
        t2 == Shuffled(t, perm)
    IN  IF ck # "ok" THEN Raised(S, ck)
        ELSE IF IndicesOutcome(S, c, t2, "test") # "ok"
             THEN Raised(S, IndicesOutcome(S, c, t2, "test"))
        ELSE [S |-> S, outcome |-> "ok", labels |-> TestLabels(t, perm)]

\* DatasetFeat.build_trainset (dataset.py:276-362)
FeatTrainRun(S, c, t, sparse_col, dense_col, multi_sparse_col, perm) ==
    LET ck == CheckColNames(t.cols, "train")
        S1 == SetFeatureCol(S, c, sparse_col, dense_col, multi_sparse_col)
        r  == SetSparseUniqueVals(S1, c, t)
        t2 == Shuffled(t, perm)
    IN  IF ck # "ok" THEN Raised(S, ck)
        ELSE IF r.outcome # "ok" THEN Raised(r.S, r.outcome)
        ELSE IF IndicesOutcome(r.S, c, t2, "train") # "ok"
             THEN Raised(r.S, IndicesOutcome(r.S, c, t2, "train"))
        ELSE IF MergeSparseOutcome(r.S, c, t2) # "ok" THEN Raised(r.S, "KeyError")
        ELSE IF DenseOutcome(r.S, c, t2) # "ok" THEN Raised(r.S, "KeyError")
        ELSE IF ~HasCol(t2, "label") THEN Raised(r.S, "KeyError")
        ELSE [S |-> [r.S EXCEPT !.called[c] = "True"], outcome |-> "ok", labels |-> LabelsOf(t2)]

\* the mutant: the train_called guard is gone
FeatTestRun_NoGuard(S, c, t, perm) ==
    LET ck == CheckColNames(t.cols, "test")
        t2 == Shuffled(t, perm)
    IN  IF ck # "ok" THEN Raised(S, ck)
        ELSE IF IndicesOutcome(S, c, t2, "test") # "ok"
             THEN Raised(S, IndicesOutcome(S, c, t2, "test"))
        ELSE IF MergeSparseOutcome(S, c, t2) # "ok" THEN Raised(S, "KeyError")
        ELSE IF DenseOutcome(S, c, t2) # "ok" THEN Raised(S, "KeyError")
        ELSE [S |-> S, outcome |-> "ok", labels |-> TestLabels(t, perm)]

\* DatasetFeat.build_testset (dataset.py:391-432)
FeatTestRun(S, c, t, perm) ==
    LET ck == CheckColNames(t.cols, "test")
        t2 == Shuffled(t, perm)
    IN  IF ~LookupCalled(S.called, c) THEN Raised(S, "RuntimeError")
        ELSE IF ck # "ok" THEN Raised(S, ck)
        ELSE IF IndicesOutcome(S, c, t2, "test") # "ok"
             THEN Raised(S, IndicesOutcome(S, c, t2, "test"))
        ELSE IF MergeSparseOutcome(S, c, t2) # "ok" THEN Raised(S, "KeyError")
        ELSE IF DenseOutcome(S, c, t2) # "ok" THEN Raised(S, "KeyError")
        ELSE [S |-> S, outcome |-> "ok", labels |-> TestLabels(t, perm)]


----------------------------------------------------------------------------
(* The dataset calls.  T is the set of tables a call draws from, Sh the    *)
(* shuffle flags, and FA the feature-column arguments.                     *)

\* the feature-column arguments (sparse_col, dense_col, multi_sparse_col) of
\* a DatasetFeat.build_trainset call: None, the empty list, a list of names,
\* and for multi_sparse_col a flat list of names and a list of lists
FeatureArgs ==
    { <<None, None, None>>,
      <<Some(<<>>), Some(<<>>), Some(<<>>)>>,
      <<Some(<<"f">>), None, None>>,
      <<None, Some(<<"g">>), None>>,
      <<None, None, Some(<<Name("f"), Name("g")>>)>>,
      <<None, None, Some(<<Field(<<"f", "g">>)>>)>>,
      <<Some(<<"f">>), Some(<<"g">>), Some(<<Field(<<"f", "g">>)>>)>> }

NoFeatureArgs == { <<None, None, None>> }

PureClasses == {"DatasetPure"}

FeatClasses == {"DatasetFeat"}

NoCall == [op |-> "none", cls |-> "none", outcome |-> "none", labels |-> <<>>,
           hasLabel |-> FALSE, inLabels |-> <<>>, nrows |-> 0, shuffle |-> FALSE,
           calledBefore |-> FALSE, args |-> <<None, None, None>>]

\* the record of one call: what was passed and what came back
CallRecord(op, c, t, shuffle, r) ==
    [op |-> op, cls |-> c, outcome |-> r.outcome, labels |-> r.labels,
     hasLabel |-> HasCol(t, "label"),
     inLabels |-> IF HasCol(t, "label") THEN Column(t, "label") ELSE <<>>,
     nrows |-> Len(t.rows), shuffle |-> shuffle,
     calledBefore |-> LookupCalled(train_called, c), args |-> <<None, None, None>>]

\* the class-level state after a call
Commit(S) ==
    /\ attrs' = S.attrs
    /\ train_called' = S.called
    /\ sparse_unique_vals' = S.suv
    /\ multi_sparse_unique_vals' = S.msuv

PureBuildTrainset(T, Sh) ==
    /\ \E c \in PureClasses, t \in T, shuffle \in Sh :
         \E perm \in RowOrders(t, shuffle) :
           LET r == PureTrainRun(ClassState, c, t, perm)
           IN  /\ Commit(r.S)
               /\ result' = CallRecord("build_trainset", c, t, shuffle, r)
               /\ trainset_calls' = trainset_calls \cup {c}
    /\ UNCHANGED <<chk, alsVars, ser, cmp, cg, tf>>

PureBuildTestset(T, Sh) ==
    /\ \E c \in PureClasses, t \in T, shuffle \in Sh :
         \E perm \in RowOrders(t, shuffle) :
           LET r == PureTestRun(ClassState, c, t, perm)
           IN  /\ Commit(r.S)
               /\ result' = CallRecord("build_testset", c, t, shuffle, r)
    /\ UNCHANGED <<chk, trainset_calls, alsVars, ser, cmp, cg, tf>>

\* dataset.py:147-149: build_evalset returns cls.build_testset(...)
PureBuildEvalset(T, Sh) ==
    /\ \E c \in PureClasses, t \in T, shuffle \in Sh :
         \E perm \in RowOrders(t, shuffle) :
           LET r == PureTestRun(ClassState, c, t, perm)
           IN  /\ Commit(r.S)
               /\ result' = CallRecord("build_evalset", c, t, shuffle, r)
    /\ UNCHANGED <<chk, trainset_calls, alsVars, ser, cmp, cg, tf>>

FeatBuildTrainset(T, Sh, FA) ==
    /\ \E c \in FeatClasses, t \in T, shuffle \in Sh, fa \in FA :
         \E perm \in RowOrders(t, shuffle) :
           LET r == FeatTrainRun(ClassState, c, t, fa[1], fa[2], fa[3], perm)
           IN  /\ Commit(r.S)
               /\ result' = [CallRecord("build_trainset", c, t, shuffle, r) EXCEPT !.args = fa]
               /\ trainset_calls' = trainset_calls \cup {c}
    /\ UNCHANGED <<chk, alsVars, ser, cmp, cg, tf>>

FeatBuildTestset(T, Sh) ==
    /\ \E c \in FeatClasses, t \in T, shuffle \in Sh :
         \E perm \in RowOrders(t, shuffle) :
           LET r == FeatTestRun(ClassState, c, t, perm)
           IN  /\ Commit(r.S)
               /\ result' = CallRecord("build_testset", c, t, shuffle, r)
    /\ UNCHANGED <<chk, trainset_calls, alsVars, ser, cmp, cg, tf>>

\* dataset.py:364-367: build_evalset returns cls.build_testset(...)
FeatBuildEvalset(T, Sh) ==
    /\ \E c \in FeatClasses, t \in T, shuffle \in Sh :
         \E perm \in RowOrders(t, shuffle) :
           LET r == FeatTestRun(ClassState, c, t, perm)
           IN  /\ Commit(r.S)
               /\ result' = CallRecord("build_evalset", c, t, shuffle, r)
    /\ UNCHANGED <<chk, trainset_calls, alsVars, ser, cmp, cg, tf>>

----------------------------------------------------------------------------
(* The alternating-least-squares family (ALS.py).  Factor entries are in   *)
(* tenths, so dot products, scores and the global mean are in hundredths.  *)

Variants == {"ALS_rating", "ALS_ranking_76897", "ALS_ranking_78978", "ALS_ranking_56765",
             "ALS_ranking"}

\* ALS.py:73, 153, 248, 347: ALS_ranking has no recommend_user
RecommendVariants == Variants \ {"ALS_ranking"}

\* a number of the code, in hundredths
Score(n) == 100 * n

\* truncated_normal(shape, mean=0.0, scale=0.05): every entry within two
\* standard deviations of 0, that is at most 0.1 in magnitude
InitVals == {-1, 1}

\* the entries a least-squares solve can leave in a factor row: what
\* np.linalg.solve, inv(...).dot(...) and the conjugate-gradient loop return
\* is abstracted to any vector over these (-1.0, 1.5 and 3.0)
SolveVals == {-10, 15, 30}

Vectors(S) == [1..NFactors -> S]

\* the training data a model is fitted on: dataset.n_users, n_items and
\* train_user (user -> item -> label); every user and item index occurs
Datasets ==
    { [n_users |-> 2, n_items |-> 2,
       train_user |-> (0 :> (0 :> 5)) @@ (1 :> ((0 :> 3) @@ (1 :> 4)))],
      [n_users |-> 2, n_items |-> 3,
       train_user |-> (0 :> (1 :> 4)) @@ (1 :> ((0 :> 2) @@ (1 :> 1) @@ (2 :> 3)))] }

NoDataset == [n_users |-> 0, n_items |-> 0, train_user |-> <<>>]

\* dataset.train_item: item -> user -> label, the same interactions by item
TrainItem(ds) ==
    LET items == UNION { DOMAIN ds.train_user[u] : u \in DOMAIN ds.train_user }
    IN  [i \in items |->
           [u \in { v \in DOMAIN ds.train_user : i \in DOMAIN ds.train_user[v] } |->
              ds.train_user[u][i]]]

RECURSIVE SumOver(_, _)
SumOver(f, D) ==
    IF D = {} THEN 0
    ELSE LET x == CHOOSE y \in D : TRUE IN f[x] + SumOver(f, D \ {x})

\* dataset.global_mean: the mean of the training labels, in hundredths
GlobalMean(ds) ==
    LET pairs == { <<u, i>> \in (DOMAIN ds.train_user) \X (0..(ds.n_items - 1)) :
                     i \in DOMAIN ds.train_user[u] }
        total == SumOver([q \in pairs |-> ds.train_user[q[1]][q[2]]], pairs)
    IN  (Score(total)) \div Cardinality(pairs)

\* the keys of a dict of indices in the order the loops visit them
Keys(d) == SortedSeq(DOMAIN d)

Dot(a, b) == SumOver([d \in 1..NFactors |-> a[d] * b[d]], 1..NFactors)

\* np.clip(x, lo, hi)
Clip(x, lo, hi) == IF x < lo THEN lo ELSE IF x > hi THEN hi ELSE x

\* M[k] on an array of n rows: 0..n-1 address the rows, -n..-1 count from
\* the end, anything else raises IndexError (-1 here)
RowIndex(n, k) ==
    IF 0 <= k /\ k < n THEN k
    ELSE IF -n <= k /\ k < 0 THEN n + k
    ELSE -1

NoModel == [variant |-> "none", n_epochs |-> 0]

NoOut == [op |-> "none", u |-> 0, i |-> 0, n_rec |-> 0, random_rec |-> FALSE,
          outcome |-> "none", value |-> 0, list |-> <<>>]

\* __init__ (ALS.py:17-22, 97-102, 177-182, 272-278, 371-378) with n_epochs
\* up to N
ConstructWith(N) ==
    /\ pc = "none"
    /\ \E v \in Variants, n \in 0..N :
          model' = [variant |-> v, n_epochs |-> n]
    /\ pc' = "idle"
    /\ UNCHANGED <<dataset, default_prediction, pu, qi, epoch, row, out>>
    /\ UNCHANGED <<dataVars, chk, ser, cmp, cg, tf>>

Construct == ConstructWith(MaxEpochs)

\* the mutant: the item loop also stores its solution in the user factors
SolveItem_WritesUser ==
    /\ pc = "item"
    /\ LET items == Keys(TrainItem(dataset))
       IN  /\ \E y \in Vectors(SolveVals) :
                 /\ qi' = [qi EXCEPT ![items[row] + 1] = y]
                 /\ pu' = [pu EXCEPT ![1] = y]
           /\ IF row < Len(items)
              THEN row' = row + 1 /\ pc' = "item" /\ epoch' = epoch
              ELSE IF epoch < model.n_epochs
                   THEN row' = 1 /\ pc' = "user" /\ epoch' = epoch + 1
                   ELSE row' = 0 /\ pc' = "done" /\ epoch' = epoch
    /\ UNCHANGED <<model, dataset, default_prediction, out>>
    /\ UNCHANGED <<dataVars, chk, ser, cmp, cg, tf>>

\* fit up to its epoch loop (ALS.py:25-31, 105-111, 185-191, 281-287,
\* 438-448): the dataset and its global mean are kept, the factors drawn
FitStart ==
    /\ pc \in {"idle", "done"}
    /\ \E ds \in Datasets :
         /\ dataset' = ds
         /\ default_prediction' = GlobalMean(ds)
         /\ pu' \in [1..ds.n_users -> Vectors(InitVals)]
         /\ qi' \in [1..ds.n_items -> Vectors(InitVals)]
    /\ IF model.n_epochs >= 1
       THEN pc' = "user" /\ epoch' = 1 /\ row' = 1
       ELSE pc' = "done" /\ epoch' = 0 /\ row' = 0
    /\ out' = NoOut
    /\ UNCHANGED model
    /\ UNCHANGED <<dataVars, chk, ser, cmp, cg, tf>>

\* one pass of the user loop (ALS.py:35-43, 115-122, 196-210, 292-308,
\* 452-453): the row of the next user of dataset.train_user is solved for
SolveUser ==
    /\ pc = "user"
    /\ LET users == Keys(dataset.train_user)
       IN  /\ \E x \in Vectors(SolveVals) : pu' = [pu EXCEPT ![users[row] + 1] = x]
           /\ IF row < Len(users)
              THEN row' = row + 1 /\ pc' = "user"
              ELSE row' = 1 /\ pc' = "item"
    /\ UNCHANGED <<model, dataset, default_prediction, qi, epoch, out>>
    /\ UNCHANGED <<dataVars, chk, ser, cmp, cg, tf>>

\* one pass of the item loop (ALS.py:45-53, 124-131, 213-226, 311-325,
\* 455-456), and after the last item the next epoch or the end of fit
SolveItem ==
    /\ pc = "item"
    /\ LET items == Keys(TrainItem(dataset))
       IN  /\ \E y \in Vectors(SolveVals) : qi' = [qi EXCEPT ![items[row] + 1] = y]
           /\ IF row < Len(items)
              THEN row' = row + 1 /\ pc' = "item" /\ epoch' = epoch
              ELSE IF epoch < model.n_epochs
                   THEN row' = 1 /\ pc' = "user" /\ epoch' = epoch + 1
                   ELSE row' = 0 /\ pc' = "done" /\ epoch' = epoch
    /\ UNCHANGED <<model, dataset, default_prediction, pu, out>>
    /\ UNCHANGED <<dataVars, chk, ser, cmp, cg, tf>>

\* 1.0 if 1 / (1 + exp(-x)) >= 0.5 else 0.0: the sigmoid is at least one
\* half exactly when x is not negative
Threshold(x) == IF x >= 0 THEN Score(1) ELSE 0

\* the mutant: the product is returned unclipped
RatingScore_Unclipped(a, b) == Dot(a, b)

\* np.clip(np.dot(a, b), 1, 5)
RatingScore(a, b) == Clip(Dot(a, b), Score(1), Score(5))

\* the mutant: the probability itself is returned, here by its tangent
\* at 0 (one half plus a quarter of the product)
RankingScore_Probability(a, b) == Clip(50 + (Dot(a, b) \div 4), 0, Score(1))

\* the thresholded sigmoid of the product
RankingScore(a, b) == Threshold(Dot(a, b))

\* predict (ALS.py:65-71, 145-151, 240-246, 339-345, 470-476): the rows are
\* indexed inside the try, and IndexError gives the default prediction
PredictValue(variant, PU, QI, dp, u, i) ==
    LET ru == RowIndex(Len(PU), u)
        ri == RowIndex(Len(QI), i)
    IN  IF ru = -1 \/ ri = -1 THEN dp
        ELSE IF variant = "ALS_rating" THEN RatingScore(PU[ru + 1], QI[ri + 1])
        ELSE RankingScore(PU[ru + 1], QI[ri + 1])

\* a predict call on the fitted model, with indices in and out of range
Predict ==
    /\ pc = "done"
    /\ \E u \in (-(dataset.n_users + 1))..dataset.n_users,
          i \in (-(dataset.n_items + 1))..dataset.n_items :
         out' = [op |-> "predict", u |-> u, i |-> i, n_rec |-> 0, random_rec |-> FALSE,
                 outcome |-> "ok",
                 value |-> PredictValue(model.variant, pu, qi, default_prediction, u, i),
                 list |-> <<>>]
    /\ UNCHANGED <<model, dataset, default_prediction, pu, qi, pc, epoch, row>>
    /\ UNCHANGED <<dataVars, chk, ser, cmp, cg, tf>>

\* the first place of a descending list whose score is below x's
InsertAt(sorted, x) ==
    IF \E k \in 1..Len(sorted) : sorted[k][2] < x[2]
    THEN CHOOSE k \in 1..Len(sorted) :
            /\ sorted[k][2] < x[2]
            /\ \A j \in 1..(k - 1) : sorted[j][2] >= x[2]
    ELSE Len(sorted) + 1

\* the mutant: the list is left in the order it had
SortDesc_AsGiven(rank, n) == SubSeq(rank, 1, n)

RECURSIVE SortDesc(_, _)
\* rank.sort(key=itemgetter(1), reverse=True) on the first n pairs: by
\* score, highest first, equal scores in the order they had
SortDesc(rank, n) ==
    IF n = 0 THEN <<>>
    ELSE LET sorted == SortDesc(rank, n - 1)
             k == InsertAt(sorted, rank[n])
         IN  SubSeq(sorted, 1, k - 1) \o <<rank[n]>> \o SubSeq(sorted, k, Len(sorted))

\* list(set(range(n_items)) - set(train_user[u]))
Unlabeled(ds, u) == SortedSeq((0..(ds.n_items - 1)) \ DOMAIN ds.train_user[u])

\* ALS.py:75-81: every item is below n_items, so the scores come from the
\* clipped product whatever the variant
Rank(variant, ds, PU, QI, dp, u) ==
    LET unlabled_items == Unlabeled(ds, u)
    IN  IF \E k \in 1..Len(unlabled_items) : unlabled_items[k] > ds.n_items
        THEN LET js == SortedSeq((0..(Len(QI) - 1)) \ DOMAIN ds.train_user[u])
             IN  [k \in 1..Len(js) |-> <<js[k], PredictValue(variant, PU, QI, dp, u, js[k])>>]
        ELSE [k \in 1..Len(unlabled_items) |->
                <<unlabled_items[k], RatingScore(PU[u + 1], QI[unlabled_items[k] + 1])>>]

IsHighScore(pair) == pair[2] >= Score(4)

\* the mutant: the whole sorted list is returned
TopN_All(rank, n_rec) == SortDesc(rank, Len(rank))

\* ALS.py:92-93: the sorted list cut to n_rec
TopN(rank, n_rec) == SubSeq(SortDesc(rank, Len(rank)), 1, Min2(n_rec, Len(rank)))

\* ALS.py:84-86: the ranked pairs whose score is at least 4
RandomCandidates(variant, ds, PU, QI, dp, u) ==
    SelectSeq(Rank(variant, ds, PU, QI, dp, u), IsHighScore)

\* ALS.py:87-89: np.random.choice(item_list, n_rec, replace=False, p=p)
\* raises ValueError on an empty item_list and on n_rec above its length,
\* and otherwise gives n_rec different candidates in some order
RandomDraws(cands, n_rec) ==
    IF Len(cands) = 0 \/ n_rec > Len(cands) THEN {}
    ELSE { [k \in 1..n_rec |-> cands[pick[k]]] :
             pick \in { q \in [1..n_rec -> 1..Len(cands)] :
                          \A a, b \in 1..n_rec : a # b => q[a] # q[b] } }

\* recommend_user (ALS.py:73-93, 153-173, 248-268, 347-367); a user
\* without training interactions is no key of train_user
RecommendUser ==
    /\ pc = "done"
    /\ model.variant \in RecommendVariants
    /\ \E u \in 0..dataset.n_users, n_rec \in 0..MaxRec, random_rec \in BOOLEAN :
         LET call == [op |-> "recommend_user", u |-> u, i |-> 0, n_rec |-> n_rec,
                      random_rec |-> random_rec, outcome |-> "ok", value |-> 0, list |-> <<>>]
         IN  IF u \notin DOMAIN dataset.train_user
             THEN out' = [call EXCEPT !.outcome = "KeyError"]
             ELSE IF random_rec
             THEN LET cands == RandomCandidates(model.variant, dataset, pu, qi,
                                                default_prediction, u)
                  IN  \/ /\ RandomDraws(cands, n_rec) = {}
                         /\ out' = [call EXCEPT !.outcome = "ValueError"]
                      \/ \E reco \in RandomDraws(cands, n_rec) :
                            out' = [call EXCEPT !.list = reco]
             ELSE out' = [call EXCEPT !.list =
                             TopN(Rank(model.variant, dataset, pu, qi, default_prediction, u),
                                  n_rec)]
    /\ UNCHANGED <<model, dataset, default_prediction, pu, qi, pc, epoch, row>>
    /\ UNCHANGED <<dataVars, chk, ser, cmp, cg, tf>>

----------------------------------------------------------------------------
(* utils/serialization.py: sim.json and user_consumed.json.  A sparse      *)
(* matrix is its three CSR arrays; similarities are in hundredths, labels  *)
(* in tenths.                                                              *)

RECURSIVE Concat(_, _)
\* the first n rows one after the other
Concat(rows, n) == IF n = 0 THEN <<>> ELSE Concat(rows, n - 1) \o rows[n]

\* the CSR arrays of a matrix given by the stored (column, value) pairs of
\* its rows: indptr[r] .. indptr[r + 1] delimit row r in indices and data
Csr(rows) ==
    LET flat == Concat(rows, Len(rows))
    IN  [indptr  |-> [k \in 1..(Len(rows) + 1) |-> Len(Concat(rows, k - 1))],
         indices |-> [k \in 1..Len(flat) |-> flat[k][1]],
         data    |-> [k \in 1..Len(flat) |-> flat[k][2]]]

\* the column indices and the similarities a stored entry can have
SimCols == {0, 1, 2}
SimVals == {-50, 90}

\* the rows of a similarity matrix: up to MaxNnz stored entries, each
\* column at most once, in any order
SimRowPool ==
    { r \in SeqsUpTo(SimCols \X SimVals, MaxNnz) :
        \A a, b \in 1..Len(r) : a # b => r[a][1] # r[b][1] }

SimMatrices == [1..SimRows -> SimRowPool]

\* s[lo:hi] for 0 <= lo <= hi <= len(s)
Slice(s, lo, hi) == SubSeq(s, lo + 1, hi)

\* s[:k]: the first k elements, and for a negative k all but the last -k
Take(s, k) ==
    IF k >= 0 THEN SubSeq(s, 1, Min2(k, Len(s)))
    ELSE SubSeq(s, 1, Len(s) + k)

\* zip(a, b)
Zip(a, b) == [k \in 1..Min2(Len(a), Len(b)) |-> <<a[k], b[k]>>]

\* the position of x in an ascending list of pairs ordered by key(x) = x[2]
InsertAsc(sorted, x) ==
    IF \E k \in 1..Len(sorted) : sorted[k][2] > x[2]
    THEN CHOOSE k \in 1..Len(sorted) :
            /\ sorted[k][2] > x[2]
            /\ \A j \in 1..(k - 1) : sorted[j][2] <= x[2]
    ELSE Len(sorted) + 1

RECURSIVE SortedAscending(_, _)
\* the mutant's order: sorted(pairs, key=lambda x: x[1])
SortedAscending(pairs, n) ==
    IF n = 0 THEN <<>>
    ELSE LET sorted == SortedAscending(pairs, n - 1)
             k == InsertAsc(sorted, pairs[n])
         IN  SubSeq(sorted, 1, k - 1) \o <<pairs[n]>> \o SubSeq(sorted, k, Len(sorted))

\* the mutant: the neighbours with the lowest similarity first
SimRowToJson_Ascending(m, i, k) ==
    Take(SortedAscending(Zip(Slice(m.indices, m.indptr[i + 1], m.indptr[i + 2]),
                             Slice(m.data, m.indptr[i + 1], m.indptr[i + 2])),
                         m.indptr[i + 2] - m.indptr[i + 1]), k)

\* serialization.py:63-65: sorted(zip(indices[i_slice], data[i_slice]),
\* key=lambda x: -x[1])[:k]; the sort is stable
SimRowToJson(m, i, k) ==
    LET pairs == Zip(Slice(m.indices, m.indptr[i + 1], m.indptr[i + 2]),
                     Slice(m.data, m.indptr[i + 1], m.indptr[i + 2]))
    IN  Take(SortDesc(pairs, Len(pairs)), k)

\* convert_sim_to_json (serialization.py:56-66): res[i] for i in range(num)
ConvertSimToJson(m, k) ==
    [i \in 0..(Len(m.indptr) - 2) |-> SimRowToJson(m, i, k)]

NoSer == [op |-> "none", stored |-> <<>>, k |-> 0, json |-> <<>>, back |-> {}]

\* save_knn's sim.json (serialization.py:17-18): the conversion of
\* model.sim_matrix with the given k.  The conversions read nothing but
\* their arguments, so a behaviour makes one call
ConvertSim ==
    /\ ser = NoSer
    /\ \E rows \in SimMatrices, k \in 0..MaxK :
         ser' = [op |-> "convert_sim_to_json", stored |-> rows, k |-> k,
                 json |-> ConvertSimToJson(Csr(rows), k), back |-> {}]
    /\ UNCHANGED <<dataVars, chk, alsVars, cmp, cg, tf>>

\* the item indices and the labels (0.0, 3.5 and 5.0) of an interaction
ConsumedItems == {1, 10, 11}
ConsumedLabels == {0, 35, 50}

\* what a user consumed: item -> label, for any subset of the items
ConsumedPool ==
    UNION { [items -> ConsumedLabels] : items \in SUBSET ConsumedItems }

\* train_data.sparse_interaction: rows are users, columns items, values
\* labels; one stored value per (user, item), columns ascending in a row
InteractionRows(cells) ==
    [u \in 1..Len(cells) |->
        LET items == SortedSeq(DOMAIN cells[u])
        IN  [k \in 1..Len(items) |-> <<items[k], cells[u][items[k]]>>]]

InteractionCells == [1..ConsumedUsers -> ConsumedPool]

RECURSIVE ConsumeRow(_, _)
\* serialization.py:84-85: consumed[u][i] = r over the first n pairs of the
\* user's slice
ConsumeRow(pairs, n) ==
    IF n = 0 THEN EmptyDict
    ELSE DictSet(ConsumeRow(pairs, n - 1), pairs[n][1], pairs[n][2])

\* the mutant: consumed[u] = {i: r}
ConvertUserConsumedToJson_LastOnly(m) ==
    LET pairs(u) == Zip(Slice(m.indices, m.indptr[u + 1], m.indptr[u + 2]),
                        Slice(m.data, m.indptr[u + 1], m.indptr[u + 2]))
        users == { u \in 0..(Len(m.indptr) - 2) : Len(pairs(u)) > 0 }
    IN  [u \in users |-> DictSet(EmptyDict, pairs(u)[Len(pairs(u))][1],
                                 pairs(u)[Len(pairs(u))][2])]

\* convert_user_consumed_to_json (serialization.py:76-86): a defaultdict
\* gets a key for a user at the user's first stored entry
ConvertUserConsumedToJson(m) ==
    LET pairs(u) == Zip(Slice(m.indices, m.indptr[u + 1], m.indptr[u + 2]),
                        Slice(m.data, m.indptr[u + 1], m.indptr[u + 2]))
        users == { u \in 0..(Len(m.indptr) - 2) : Len(pairs(u)) > 0 }
    IN  [u \in users |-> ConsumeRow(pairs(u), Len(pairs(u)))]

DigitChars == <<"0", "1", "2", "3", "4", "5", "6", "7", "8", "9">>

RECURSIVE IntToJson(_)
\* json.dump of a non-negative int, also as an object key: its decimal
\* digits
IntToJson(n) ==
    IF n < 10 THEN <<DigitChars[n + 1]>>
    ELSE Append(IntToJson(n \div 10), DigitChars[(n % 10) + 1])

\* json.dump of a float with one decimal: float.__repr__, "3.5", "0.0"
FloatToJson(x) == IntToJson(x \div 10) \o <<".">> \o IntToJson(x % 10)

\* json.dump(json_data, f, separators=(',', ':')) (serialization.py:53) of
\* a dict of dicts: the members of the object in key order, each a key
\* string and the members of the inner object
SaveToJson(json_data) ==
    LET us == SortedSeq(DOMAIN json_data)
    IN  [a \in 1..Len(us) |->
           LET inner == json_data[us[a]]
               is == SortedSeq(DOMAIN inner)
           IN  <<IntToJson(us[a]),
                 [b \in 1..Len(is) |-> <<IntToJson(is[b]), FloatToJson(inner[is[b]])>>]>>]

DigitValue(c) == CHOOSE d \in 0..9 : DigitChars[d + 1] = c

RECURSIVE JsonToInt(_, _)
\* int(key) on the first n characters
JsonToInt(chars, n) ==
    IF n = 0 THEN 0 ELSE 10 * JsonToInt(chars, n - 1) + DigitValue(chars[n])

\* the number a float token stands for, in tenths
JsonToFloat(chars) ==
    LET dot == CHOOSE k \in 1..Len(chars) : chars[k] = "."
        frac == SubSeq(chars, dot + 1, Len(chars))
    IN  10 * JsonToInt(chars, dot - 1) + JsonToInt(frac, Len(frac))

\* reading user_consumed.json back: json.load, then every member of every
\* inner object as a (user, item, label) triple
ReadTriples(doc) ==
    { <<JsonToInt(doc[a][1], Len(doc[a][1])),
        JsonToInt(doc[a][2][b][1], Len(doc[a][2][b][1])),
        JsonToFloat(doc[a][2][b][2])>> :
        <<a, b>> \in UNION { {a0} \X (1..Len(doc[a0][2])) : a0 \in 1..Len(doc) } }

\* save_to_json(user_consumed_path, train_data.sparse_interaction,
\* convert_user_consumed_to_json) (serialization.py:19-21, 33-35, 45-47,
\* 50-53), and the file read back
SaveUserConsumed ==
    /\ ser = NoSer
    /\ \E cells \in InteractionCells :
         LET doc == SaveToJson(ConvertUserConsumedToJson(Csr(InteractionRows(cells))))
         IN  ser' = [op |-> "user_consumed", stored |-> cells, k |-> 0,
                     json |-> doc, back |-> ReadTriples(doc)]
    /\ UNCHANGED <<dataVars, chk, alsVars, cmp, cg, tf>>

----------------------------------------------------------------------------
(* ALS_ranking.fit on both paths, in numbers.  A float is a fixed-point    *)
(* number of four decimals, every product and quotient rounded to the      *)
(* nearest; n_factors is 1, so a factor row, Y.T.dot(Y) and A are numbers  *)
(* and np.linalg.solve(A, b) is b / A.                                     *)

\* the number n in fixed point
Fx(n) == 10000 * n

\* n / d rounded to the nearest integer
FxRound(n, d) ==
    IF d < 0 THEN ((-n) + ((-d) \div 2)) \div (-d)
    ELSE (n + (d \div 2)) \div d

FxMul(a, b) == FxRound(a * b, Fx(1))

FxDiv(a, b) == FxRound(a * Fx(1), b)

\* truncated_normal(mean=0.0, scale=0.05) entries: -0.1 and 0.1
FxInitVals == {-1000, 1000}

\* the (reg, alpha) pairs a model is configured with
FxHyper == { <<Fx(1), Fx(2)>>, <<Fx(1), Fx(1)>>, <<Fx(2), Fx(2)>> }

\* implicit-feedback training data: every label is 1
ImplicitDatasets ==
    { [n_users |-> 2, n_items |-> 2,
       train_user |-> (0 :> ((0 :> 1) @@ (1 :> 1))) @@ (1 :> (0 :> 1))],
      [n_users |-> 2, n_items |-> 2,
       train_user |-> (0 :> (0 :> 1)) @@ (1 :> (1 :> 1))] }

\* Y.T.dot(Y)
Gram(Y) == SumOver([k \in 1..Len(Y) |-> FxMul(Y[k], Y[k])], 1..Len(Y))

\* ALS.py:392, 411, 422: confidence = 1 + alpha * label
Confidence(alpha, label) == Fx(1) + FxMul(alpha, Fx(label))

\* ALS.py:389-396: the row of one key s of data, d = data[s]
DirectRow(d, Y, YtY, reg, alpha) ==
    LET A == YtY + reg
             + SumOver([i \in DOMAIN d |->
                          FxMul(Confidence(alpha, d[i]) - Fx(1), FxMul(Y[i + 1], Y[i + 1]))],
                       DOMAIN d)
        b == SumOver([i \in DOMAIN d |-> FxMul(Confidence(alpha, d[i]), Y[i + 1])], DOMAIN d)
    IN  FxDiv(b, A)

\* least_squares (ALS.py:380-396): every key of data gets its row solved
LeastSquares(data, X, Y, reg, alpha) ==
    [s \in 1..Len(X) |->
        IF (s - 1) \in DOMAIN data
        THEN DirectRow(data[s - 1], Y, Gram(Y), reg, alpha)
        ELSE X[s]]

\* rs < 1e-20 (ALS.py:416, 430): of the fixed-point numbers only those
\* not above 0 are below 1e-20
BelowTolerance(rs) == rs <= 0

\* ALS.py:409-412: r = -YtY.dot(x), then one term per interaction
Residual(d, Y, YtY, alpha, x) ==
    (-FxMul(YtY, x))
    + SumOver([i \in DOMAIN d |->
                 FxMul(Confidence(alpha, d[i])
                         - FxMul(Confidence(alpha, d[i]) - Fx(1), FxMul(Y[i + 1], x)),
                       Y[i + 1])],
              DOMAIN d)

\* ALS.py:420-423: Ap = YtY.dot(p), then one correction per interaction
ApOf(d, Y, YtY, alpha, p) ==
    FxMul(YtY, p)
    + SumOver([i \in DOMAIN d |->
                 FxMul(FxMul(Confidence(alpha, d[i]) - Fx(1), FxMul(Y[i + 1], p)), Y[i + 1])],
              DOMAIN d)

RECURSIVE CgIterate(_, _, _, _, _)
\* ALS.py:419-433: up to n more passes of the loop over range(cg_steps);
\* line 426 assigns the step length to the name alpha
CgIterate(d, Y, YtY, st, n) ==
    IF n = 0 THEN st
    ELSE LET Ap == ApOf(d, Y, YtY, st.alpha, st.p)
             alpha == FxDiv(st.rs_old, FxMul(st.p, Ap))
             x == st.x + FxMul(alpha, st.p)
             r == st.r - FxMul(alpha, Ap)
             rs_new == FxMul(r, r)
         IN  IF BelowTolerance(rs_new)
             THEN [st EXCEPT !.x = x, !.r = r, !.alpha = alpha]
             ELSE CgIterate(d, Y, YtY,
                            [x |-> x, r |-> r,
                             p |-> r + FxMul(FxDiv(rs_new, st.rs_old), st.p),
                             rs_old |-> rs_new, alpha |-> alpha],
                            n - 1)

RECURSIVE CgRows(_, _, _, _, _, _, _, _)
\* ALS.py:406-434 over the first k keys of data: the rows so far and the
\* value the name alpha is left with
CgRows(data, keys, k, X, Y, YtY, alpha, cg_steps) ==
    IF k = 0 THEN [X |-> X, alpha |-> alpha]
    ELSE LET prev == CgRows(data, keys, k - 1, X, Y, YtY, alpha, cg_steps)
             s == keys[k]
             x == prev.X[s + 1]
             r == Residual(data[s], Y, YtY, prev.alpha, x)
             rs_old == FxMul(r, r)
         IN  IF BelowTolerance(rs_old) THEN prev
             ELSE LET st == CgIterate(data[s], Y, YtY,
                                      [x |-> x, r |-> r, p |-> r, rs_old |-> rs_old,
                                       alpha |-> prev.alpha],
                                      cg_steps)
                  IN  [X |-> [prev.X EXCEPT ![s + 1] = st.x], alpha |-> st.alpha]

\* least_squares_cg (ALS.py:398-434)
LeastSquaresCg(data, X, Y, reg, alpha, cg_steps) ==
    CgRows(data, Keys(data), Len(Keys(data)), X, Y, Gram(Y) + reg, alpha, cg_steps).X

\* one epoch of fit (ALS.py:450-456) with use_cg=False
FitDirect(ds, X, Y, reg, alpha) ==
    LET X1 == LeastSquares(ds.train_user, X, Y, reg, alpha)
    IN  [X |-> X1, Y |-> LeastSquares(TrainItem(ds), Y, X1, reg, alpha)]

\* one epoch of fit (ALS.py:450-456) with use_cg=True
FitCg(ds, X, Y, reg, alpha, cg_steps) ==
    LET X1 == LeastSquaresCg(ds.train_user, X, Y, reg, alpha, cg_steps)
    IN  [X |-> X1, Y |-> LeastSquaresCg(TrainItem(ds), Y, X1, reg, alpha, cg_steps)]

\* the predicted scores of a fitted pair of factor matrices
Scores(F) == [q \in (1..Len(F.X)) \X (1..Len(F.Y)) |-> FxMul(F.X[q[1]], F.Y[q[2]])]

NoCompare == [op |-> "none", dataset |-> NoDataset, X |-> <<>>, Y |-> <<>>, reg |-> 0,
              alpha |-> 0, cg_steps |-> 0, direct |-> <<>>, cg |-> <<>>]

\* the same dataset, seed (the same initial factors), reg and alpha fitted
\* for one epoch with use_cg=False and with use_cg=True.  fit reads
\* nothing but its arguments, so a behaviour makes one comparison
CompareFit ==
    /\ cmp = NoCompare
    /\ \E ds \in ImplicitDatasets, h \in FxHyper, cg_steps \in 1..MaxCgSteps :
       \E X \in [1..ds.n_users -> FxInitVals], Y \in [1..ds.n_items -> FxInitVals] :
          cmp' = [op |-> "fit", dataset |-> ds, X |-> X, Y |-> Y, reg |-> h[1],
                  alpha |-> h[2], cg_steps |-> cg_steps,
                  direct |-> Scores(FitDirect(ds, X, Y, h[1], h[2])),
                  cg |-> Scores(FitCg(ds, X, Y, h[1], h[2], cg_steps))]
    /\ UNCHANGED <<dataVars, chk, alsVars, ser, cg, tf>>

----------------------------------------------------------------------------
(* vector_from_model (serialization.py:195-211).  A class name is the      *)
(* sequence of its characters.                                             *)

Lowercase == <<"a", "b", "c", "d", "e", "h", "k", "l", "m", "n", "o", "p", "r", "s", "t",
               "u", "v", "y">>
Uppercase == <<"A", "B", "C", "D", "E", "H", "K", "L", "M", "N", "O", "P", "R", "S", "T",
               "U", "V", "Y">>

\* str.lower() on one character: a capital becomes its small letter, any
\* other character stays
LowerChar(ch) ==
    IF \E k \in 1..Len(Uppercase) : Uppercase[k] = ch
    THEN Lowercase[CHOOSE k \in 1..Len(Uppercase) : Uppercase[k] = ch]
    ELSE ch

\* the mutant: the class name is compared as it is
Lower_Identity(name) == name

\* model.__class__.__name__.lower()
Lower(name) == [k \in 1..Len(name) |-> LowerChar(name[k])]

UpperChar(ch) ==
    IF \E k \in 1..Len(Lowercase) : Lowercase[k] = ch
    THEN Uppercase[CHOOSE k \in 1..Len(Lowercase) : Lowercase[k] = ch]
    ELSE ch

\* every spelling of a word in small and capital letters
Spellings(w) ==
    { [k \in 1..Len(w) |-> IF up[k] THEN UpperChar(w[k]) ELSE w[k]] :
        up \in [1..Len(w) -> BOOLEAN] }

W_svd == <<"s", "v", "d">>
W_svdpp == <<"s", "v", "d", "p", "p">>
W_als == <<"a", "l", "s">>
W_bpr == <<"b", "p", "r">>
W_youtubematch == <<"y", "o", "u", "t", "u", "b", "e", "m", "a", "t", "c", "h">>

\* class names that are none of the five: knn, svdp, als_rating
OtherWords == { <<"k", "n", "n">>, <<"s", "v", "d", "p">>, <<"a", "l", "s", "_", "r", "a", "t", "i", "n", "g">> }

\* the class names of the models handed to vector_from_model
ModelNames == UNION { Spellings(w) : w \in {W_svd, W_svdpp, W_als, W_bpr, W_youtubematch}
                                              \cup OtherWords }

\* the arrays of a model of two users and two items: biases, factor
\* matrices, embeddings
ModelArrays ==
    [bu |-> <<1, 2>>, bi |-> <<3, 4>>,
     pu |-> << <<11>>, <<12>> >>, puj |-> << <<21>>, <<22>> >>, qi |-> << <<31>>, <<32>> >>,
     user_embed |-> << <<41>>, <<42>> >>, item_embed |-> << <<51>>, <<52>> >>,
     user_vector |-> << <<61>>, <<62>> >>, item_weights |-> << <<71>>, <<72>> >>]

\* np.concatenate([b[:, None], M], axis=1): the bias leads every row
BiasFirst(b, M) == [k \in 1..Len(M) |-> <<b[k]>> \o M[k]]

\* vector_from_model (serialization.py:195-211)
VectorFromModel(name, m) ==
    LET model_name == Lower(name)
    IN  IF model_name = W_svd
        THEN [outcome |-> "ok", user_vec |-> BiasFirst(m.bu, m.pu),
              item_vec |-> BiasFirst(m.bi, m.qi)]
        ELSE IF model_name = W_svdpp
        THEN [outcome |-> "ok", user_vec |-> BiasFirst(m.bu, m.puj),
              item_vec |-> BiasFirst(m.bi, m.qi)]
        ELSE IF model_name \in {W_als, W_bpr}
        THEN [outcome |-> "ok", user_vec |-> m.user_embed, item_vec |-> m.item_embed]
        ELSE IF model_name = W_youtubematch
        THEN [outcome |-> "ok", user_vec |-> m.user_vector, item_vec |-> m.item_weights]
        ELSE [outcome |-> "ValueError", user_vec |-> <<>>, item_vec |-> <<>>]

\* one vector_from_model call on a model of some class
VectorCall ==
    /\ ser = NoSer
    /\ \E name \in ModelNames :
         ser' = [op |-> "vector_from_model", stored |-> name, k |-> 0,
                 json |-> VectorFromModel(name, ModelArrays), back |-> {}]
    /\ UNCHANGED <<dataVars, chk, alsVars, cmp, cg, tf>>

----------------------------------------------------------------------------
(* save_model_tf_serving (serialization.py:123-192): the prompt loop and   *)
(* the export step.  What the user types is a sequence of characters.      *)

MaxPrompts == 3

W_yes == <<"y", "e", "s">>
W_y == <<"y">>
W_no == <<"n", "o">>
W_n == <<"n">>

\* what the user may type: every spelling of yes, y, no, n, and of the
\* answers ye, nope and the empty line, which are none of them
Typed == UNION { Spellings(w) : w \in {W_yes, W_y, W_no, W_n, <<"y", "e">>,
                                        <<"n", "o", "p", "e">>, <<>>} }

\* before the call: no prompt shown, nothing typed, the process running
NoExport ==
    [pc |-> "none", isdir |-> FALSE, simple_save |-> FALSE, typed |-> <<>>, prompts |-> 0,
     exited |-> FALSE, status |-> 0, exported |-> "none"]

\* save_model_tf_serving is called (serialization.py:123-131): the export
\* path exists as a directory or not
SaveModelTfServing ==
    /\ tf.pc = "none"
    /\ \E isdir \in BOOLEAN, simple_save \in BOOLEAN :
         tf' = [tf EXCEPT !.pc = IF isdir THEN "prompt" ELSE "export",
                          !.isdir = isdir, !.simple_save = simple_save]
    /\ UNCHANGED <<dataVars, chk, alsVars, ser, cmp, cg>>

\* the mutant: an answer that is neither yes nor no counts as consent, and
\* the export goes ahead over the directory
Prompt_OtherAnswerProceeds ==
    /\ tf.pc = "prompt"
    /\ tf.prompts < MaxPrompts
    /\ \E typed \in Typed :
         LET choice == Lower(typed)
         IN  tf' = IF choice \in {W_yes, W_y}
                   THEN [tf EXCEPT !.typed = typed, !.prompts = @ + 1,
                                   !.isdir = FALSE, !.pc = "export"]
                   ELSE IF choice \in {W_no, W_n}
                   THEN [tf EXCEPT !.typed = typed, !.prompts = @ + 1,
                                   !.pc = "exited", !.exited = TRUE, !.status = 0]
                   ELSE [tf EXCEPT !.typed = typed, !.prompts = @ + 1, !.pc = "export"]
    /\ UNCHANGED <<dataVars, chk, alsVars, ser, cmp, cg>>

\* one round of the while loop (serialization.py:132-144)
Prompt ==
    /\ tf.pc = "prompt"
    /\ tf.prompts < MaxPrompts
    /\ \E typed \in Typed :
         LET choice == Lower(typed)
         IN  tf' = IF choice \in {W_yes, W_y}
                   THEN [tf EXCEPT !.typed = typed, !.prompts = @ + 1,
                                   !.isdir = FALSE, !.pc = "export"]
                   ELSE IF choice \in {W_no, W_n}
                   THEN [tf EXCEPT !.typed = typed, !.prompts = @ + 1,
                                   !.pc = "exited", !.exited = TRUE, !.status = 0]
                   ELSE [tf EXCEPT !.typed = typed, !.prompts = @ + 1]
    /\ UNCHANGED <<dataVars, chk, alsVars, ser, cmp, cg>>

\* the export step (serialization.py:146-192)
Export ==
    /\ tf.pc = "export"
    /\ tf' = [tf EXCEPT !.pc = "done", !.isdir = TRUE,
                        !.exported = IF tf.simple_save THEN "simple_save" ELSE "builder"]
    /\ UNCHANGED <<dataVars, chk, alsVars, ser, cmp, cg>>

----------------------------------------------------------------------------
(* convert_data_info_to_json (serialization.py:89-121).  A python dict is  *)
(* a function on its keys; a column index list holds positions from 0.     *)

MaxFeatCols == 3

\* the lists of distinct positions below MaxFeatCols
ColLists ==
    UNION { { c \in [1..n -> 0..(MaxFeatCols - 1)] :
                \A a, b \in 1..n : a # b => c[a] # c[b] } : n \in 0..MaxFeatCols }

\* the user and the item columns of one kind: two lists with no position
\* in common (dataset.py:319-333)
ColPairs == { pr \in ColLists \X ColLists : Range(pr[1]) \cap Range(pr[2]) = {} }

\* the table of unique feature rows of one group: one column per position
UniqueTable(cols, base) == [r \in 1..2 |-> [k \in 1..Len(cols) |-> base + 10 * r + cols[k]]]

DataInfos ==
    { [user_sparse_col |-> sp[1], item_sparse_col |-> sp[2],
       user_dense_col |-> de[1], item_dense_col |-> de[2],
       user_sparse_unique |-> UniqueTable(sp[1], 100),
       item_sparse_unique |-> UniqueTable(sp[2], 200),
       user_dense_unique |-> UniqueTable(de[1], 300),
       item_dense_unique |-> UniqueTable(de[2], 400)] : sp \in ColPairs, de \in ColPairs }

\* the mutant: np.arange(len(orig_cols)) without the argsort
ArgSort_Arange(cols) == [q \in 1..Len(cols) |-> q - 1]

\* np.arange(len(orig_cols))[np.argsort(orig_cols)]: the positions of
\* orig_cols from 0, smallest value first (serialization.py:97, 111)
ArgSort(cols) ==
    [q \in 1..Len(cols) |->
        (CHOOSE k \in 1..Len(cols) :
            Cardinality({ j \in 1..Len(cols) :
                            \/ cols[j] < cols[k]
                            \/ (cols[j] = cols[k] /\ j < k) }) = q - 1) - 1]

\* one part of convert_data_info_to_json (serialization.py:94-104 and
\* 109-119): a python list is true when it is not empty
GroupToJson(user_col, item_col, user_unique, item_unique, reindex_key, user_key, item_key) ==
    IF user_col # <<>> /\ item_col # <<>>
    THEN LET orig_cols == user_col \o item_col
         IN  (reindex_key :> ArgSort(orig_cols)) @@ (user_key :> user_unique)
                 @@ (item_key :> item_unique)
    ELSE IF user_col # <<>>
    THEN (user_key :> user_unique)
    ELSE IF item_col # <<>>
    THEN (item_key :> item_unique)
    ELSE <<>>

\* convert_data_info_to_json (serialization.py:89-121)
ConvertDataInfoToJson(data_info) ==
    GroupToJson(data_info.user_sparse_col, data_info.item_sparse_col,
                data_info.user_sparse_unique, data_info.item_sparse_unique,
                "sparse_col_reindex", "user_sparse_unique", "item_sparse_unique")
    @@ GroupToJson(data_info.user_dense_col, data_info.item_dense_col,
                   data_info.user_dense_unique, data_info.item_dense_unique,
                   "dense_col_reindex", "user_dense_unique", "item_dense_unique")

\* one convert_data_info_to_json call
ConvertDataInfo ==
    /\ ser = NoSer
    /\ \E data_info \in DataInfos :
         ser' = [op |-> "convert_data_info_to_json", stored |-> data_info, k |-> 0,
                 json |-> ConvertDataInfoToJson(data_info), back |-> {}]
    /\ UNCHANGED <<dataVars, chk, alsVars, cmp, cg, tf>>

----------------------------------------------------------------------------
(* least_squares_cg step by step (ALS.py:398-434): which rows are visited, *)
(* how often the inner loop runs, and what the local name alpha holds when *)
(* a confidence is computed.  The outcome of a comparison of a residual    *)
(* norm with 1e-20 is either one.                                          *)

MaxCgRows == 3

\* before the call
NoCg ==
    [pc |-> "none", n |-> 0, cg_steps |-> 0, s |-> 0, it |-> 0, alpha |-> "alpha",
     conf |-> {}, visits |-> <<>>, iters |-> <<>>, updates |-> <<>>, skipped |-> <<>>,
     broke |-> <<>>, stored |-> <<>>]

\* for s in data (ALS.py:406): on to the next row, or the call returns
NextRow(c) ==
    IF c.s < c.n THEN [c EXCEPT !.pc = "row", !.s = @ + 1, !.it = 0]
    ELSE [c EXCEPT !.pc = "done", !.it = 0]

\* least_squares_cg is called with alpha=self.alpha on the n rows of data
\* (ALS.py:399-405, 450-456)
LeastSquaresCgCall ==
    /\ cg.pc = "none"
    /\ \E n \in 0..MaxCgRows, cg_steps \in 0..MaxCgSteps :
         cg' = NextRow([NoCg EXCEPT !.n = n, !.cg_steps = cg_steps,
                                    !.visits = [k \in 1..n |-> 0],
                                    !.iters = [k \in 1..n |-> 0],
                                    !.updates = [k \in 1..n |-> 0],
                                    !.skipped = [k \in 1..n |-> FALSE],
                                    !.broke = [k \in 1..n |-> FALSE],
                                    !.stored = [k \in 1..n |-> FALSE]])
    /\ UNCHANGED <<dataVars, chk, alsVars, ser, cmp, tf>>

\* the residual of row s (ALS.py:407-417): the confidence is computed from
\* what alpha holds; rs_old < 1e-20 goes on to the next row
CgRowStart ==
    /\ cg.pc = "row"
    /\ \E below \in BOOLEAN :
         LET c == [cg EXCEPT !.visits[cg.s] = @ + 1,
                             !.conf = @ \cup {[row |-> cg.s, line |-> 411, alpha |-> cg.alpha]}]
         IN  cg' = IF below THEN NextRow([c EXCEPT !.skipped[cg.s] = TRUE])
                   ELSE IF c.cg_steps = 0 THEN [c EXCEPT !.pc = "store"]
                   ELSE [c EXCEPT !.pc = "iter"]
    /\ UNCHANGED <<dataVars, chk, alsVars, ser, cmp, tf>>

\* the mutant: no break on a small residual
CgIteration_NoBreak ==
    /\ cg.pc = "iter"
    /\ \E below \in BOOLEAN :
         LET c == [cg EXCEPT !.conf = @ \cup {[row |-> cg.s, line |-> 422, alpha |-> cg.alpha]},
                             !.alpha = "rs_old / p.dot(Ap)",
                             !.iters[cg.s] = @ + 1,
                             !.it = @ + 1]
             u == [c EXCEPT !.updates[cg.s] = @ + 1, !.broke[cg.s] = below]
         IN  cg' = IF u.it < u.cg_steps THEN u ELSE [u EXCEPT !.pc = "store"]
    /\ UNCHANGED <<dataVars, chk, alsVars, ser, cmp, tf>>

\* one pass of for it in range(cg_steps) (ALS.py:419-433): Ap with the
\* confidence from what alpha holds, alpha = rs_old / p.dot(Ap), x and r
\* moved, and on rs_new < 1e-20 the break before p is updated
CgIteration ==
    /\ cg.pc = "iter"
    /\ \E below \in BOOLEAN :
         LET c == [cg EXCEPT !.conf = @ \cup {[row |-> cg.s, line |-> 422, alpha |-> cg.alpha]},
                             !.alpha = "rs_old / p.dot(Ap)",
                             !.iters[cg.s] = @ + 1,
                             !.it = @ + 1]
             u == [c EXCEPT !.updates[cg.s] = @ + 1]
         IN  cg' = IF below THEN [c EXCEPT !.pc = "store", !.broke[cg.s] = TRUE]
                   ELSE IF u.it < u.cg_steps THEN u
                   ELSE [u EXCEPT !.pc = "store"]
    /\ UNCHANGED <<dataVars, chk, alsVars, ser, cmp, tf>>

\* X[s] = x (ALS.py:434)
CgStore ==
    /\ cg.pc = "store"
    /\ cg' = NextRow([cg EXCEPT !.stored[cg.s] = TRUE])
    /\ UNCHANGED <<dataVars, chk, alsVars, ser, cmp, tf>>

----------------------------------------------------------------------------
(* Specifications.                                                         *)

\* the classes as the module defines them (dataset.py:22-29)
InitData ==
    /\ attrs = [c \in Classes |-> [a \in AttrNames |-> IF c = "Dataset" THEN None ELSE Unset]]
    /\ train_called = [c \in Classes |-> IF c = "Dataset" THEN "False" ELSE "unset"]
    /\ sparse_unique_vals = EmptyDict
    /\ multi_sparse_unique_vals = EmptyDict
    /\ result = NoCall
    /\ trainset_calls = {}

\* no model object yet
InitALS ==
    /\ model = NoModel
    /\ dataset = NoDataset
    /\ default_prediction = 0
    /\ pu = <<>>
    /\ qi = <<>>
    /\ pc = "none"
    /\ epoch = 0
    /\ row = 0
    /\ out = NoOut

Init ==
    /\ InitData
    /\ chk = NoCheck
    /\ InitALS
    /\ ser = NoSer
    /\ cmp = NoCompare
    /\ cg = NoCg
    /\ tf = NoExport

NextCheck == CheckCall

\* the calls on one-row tables, with every feature-column argument
NextData ==
    \/ PureBuildTrainset(DataTables, {FALSE})
    \/ PureBuildTestset(DataTables, {FALSE})
    \/ PureBuildEvalset(DataTables, {FALSE})
    \/ FeatBuildTrainset(DataTables, {FALSE}, FeatureArgs)
    \/ FeatBuildTestset(DataTables, {FALSE})
    \/ FeatBuildEvalset(DataTables, {FALSE})

\* the calls on tables of several rows, shuffled or not, without features
NextLabels ==
    \/ PureBuildTrainset(LabelTables, BOOLEAN)
    \/ PureBuildTestset(LabelTables, BOOLEAN)
    \/ PureBuildEvalset(LabelTables, BOOLEAN)
    \/ FeatBuildTrainset(LabelTables, BOOLEAN, NoFeatureArgs)
    \/ FeatBuildTestset(LabelTables, BOOLEAN)
    \/ FeatBuildEvalset(LabelTables, BOOLEAN)

\* construction, fit and predict calls
NextPredict ==
    \/ Construct
    \/ FitStart
    \/ SolveUser
    \/ SolveItem
    \/ Predict

\* construction, fit and recommend_user calls
NextRecommend ==
    \/ Construct
    \/ FitStart
    \/ SolveUser
    \/ SolveItem
    \/ RecommendUser

\* construction and fit over several epochs
NextFit ==
    \/ ConstructWith(MaxFitEpochs)
    \/ FitStart
    \/ SolveUser
    \/ SolveItem

\* one least_squares_cg call, step by step
NextCg ==
    \/ LeastSquaresCgCall
    \/ CgRowStart
    \/ CgIteration
    \/ CgStore

\* the serialization calls
NextSerialize ==
    \/ ConvertSim
    \/ SaveUserConsumed
    \/ VectorCall
    \/ ConvertDataInfo

\* the two fitting paths of ALS_ranking side by side
NextCompare == CompareFit

NextExport ==
    \/ SaveModelTfServing
    \/ Prompt
    \/ Export

SpecCheck == Init /\ [][NextCheck]_vars

SpecData == Init /\ [][NextData]_vars

SpecLabels == Init /\ [][NextLabels]_vars

SpecPredict == Init /\ [][NextPredict]_vars

SpecRecommend == Init /\ [][NextRecommend]_vars

SpecSerialize == Init /\ [][NextSerialize]_vars

SpecCompare == Init /\ [][NextCompare]_vars
SpecExport == Init /\ [][NextExport]_vars

SpecFit == Init /\ [][NextFit]_vars

SpecCg == Init /\ [][NextCg]_vars

----------------------------------------------------------------------------
(* Properties of the dataset pipeline.                                     *)

TestOps == {"build_testset", "build_evalset"}

\* C1: a DatasetFeat.build_testset or build_evalset call made before any
\* build_trainset call on DatasetFeat raises RuntimeError (NotReady) and
\* returns no container.
C1_NotReadyBeforeTrainset ==
    ( /\ result.op \in TestOps
      /\ result.cls \in FeatClasses
      /\ result.cls \notin trainset_calls )
    => (result.outcome = "RuntimeError" /\ result.labels = <<>>)

\* a DatasetFeat test call refused although DatasetPure has built a trainset
C1_Witness ==
    /\ result.op = "build_evalset"
    /\ result.cls = "DatasetFeat"
    /\ trainset_calls = {"DatasetPure"}
    /\ result.outcome = "RuntimeError"

\* C2 as claimed: _check_col_names in mode "train" raises ValueError
\* (InvalidSchema) for a table without a "label" column whose first two
\* columns are "user" then "item".
C2_TrainWithoutLabelRaises ==
    ( /\ chk.mode = "train"
      /\ Len(chk.cols) >= 2
      /\ chk.cols[1] = "user" /\ chk.cols[2] = "item"
      /\ "label" \notin Range(chk.cols) )
    => chk.outcome = "ValueError"

\* C3: on a table that has a column 0 and a column 1, _check_col_names in
\* either mode raises ValueError exactly when column 0 is not "user" or
\* column 1 is not "item"; a test-mode table starting user, item passes
\* with and without a "label" column.
C3_SchemaErrorIffWrongFirstTwo ==
    (chk.mode \in Modes /\ Len(chk.cols) >= 2)
    => /\ (chk.outcome = "ValueError") <=> (chk.cols[1] # "user" \/ chk.cols[2] # "item")
       /\ (chk.mode = "test" /\ chk.cols[1] = "user" /\ chk.cols[2] = "item")
            => chk.outcome = "ok"

\* the swapped header is refused in test mode
C3_Witness ==
    /\ chk.mode = "test"
    /\ chk.cols = <<"item", "user", "label">>
    /\ chk.outcome = "ValueError"

\* C4 as claimed: a returned test or eval container holds zeros, one per
\* row, when the table has no "label" column, and otherwise the label
\* column's values in the table's row order.
C4_LabelsAsGiven ==
    (result.op \in TestOps /\ result.outcome = "ok")
    => IF result.hasLabel
       THEN result.labels = result.inLabels
       ELSE result.labels = Zeros(result.nrows)

\* C4 amended: zeros, one per row, without a "label" column; otherwise the
\* label column's values cast to float32, in the table's row order when
\* shuffle is false and in the shuffled table's row order when it is true.
C4_LabelsCastAndOrdered ==
    (result.op \in TestOps /\ result.outcome = "ok")
    => IF result.hasLabel
       THEN \E perm \in (IF result.shuffle THEN Perms(result.nrows) ELSE {Identity(result.nrows)}) :
               result.labels = [r \in 1..result.nrows |-> ToFloat32(result.inLabels[perm[r]])]
       ELSE /\ Len(result.labels) = result.nrows
            /\ \A r \in 1..Len(result.labels) : result.labels[r] = 0

\* a two-row table without labels came back with two zeros
C4_Witness ==
    /\ result.op = "build_testset"
    /\ result.cls = "DatasetFeat"
    /\ result.outcome = "ok"
    /\ ~result.hasLabel
    /\ result.nrows = 2
    /\ result.labels = <<0, 0>>


\* out records a predict call whose indices both address rows 0..n-1
InRangePredict ==
    /\ out.op = "predict"
    /\ out.u \in 0..(dataset.n_users - 1)
    /\ out.i \in 0..(dataset.n_items - 1)

\* C5: after fit with any number of epochs, predict(u, i) of ALS_rating on
\* in-range indices returns a value between 1 and 5
C5_RatingPredictWithinOneToFive ==
    (InRangePredict /\ model.variant = "ALS_rating")
        => (out.outcome = "ok" /\ Score(1) <= out.value /\ out.value <= Score(5))

\* C5 happens: after one epoch a product above 5 was predicted as 5
C5_Witness ==
    /\ InRangePredict
    /\ model.variant = "ALS_rating"
    /\ model.n_epochs = 1
    /\ Dot(pu[out.u + 1], qi[out.i + 1]) > Score(5)
    /\ out.value = Score(5)

\* C6: predict(u, i) with a user index outside 0..n_users-1 or an item
\* index outside 0..n_items-1, negative ones included, returns the global
\* mean captured at fit time, for every variant
C6_OutsideRowsGivesGlobalMean ==
    (out.op = "predict" /\ ~InRangePredict)
        => (out.outcome = "ok" /\ out.value = GlobalMean(dataset))

\* C7: predict(u, i) of an implicit-feedback variant returns exactly 0.0 or
\* exactly 1.0 whatever the arguments
C7_AlwaysZeroOrOne ==
    (out.op = "predict" /\ model.variant # "ALS_rating")
        => out.value \in {0, Score(1)}

\* C7 as amended: predict(u, i) of an implicit-feedback variant returns
\* exactly 0.0 or 1.0 when u is in -n_users..n_users-1 and i is in
\* -n_items..n_items-1, and the global mean captured at fit time otherwise
C7_ZeroOrOneOnRowsElseGlobalMean ==
    (out.op = "predict" /\ model.variant # "ALS_rating")
        => IF /\ out.u \in (-dataset.n_users)..(dataset.n_users - 1)
              /\ out.i \in (-dataset.n_items)..(dataset.n_items - 1)
           THEN out.value \in {0, Score(1)}
           ELSE out.value = GlobalMean(dataset)

\* C7 happens: after one epoch ALS_ranking predicted 0.0 for a negative
\* product of two rows
C7_Witness ==
    /\ InRangePredict
    /\ model.variant = "ALS_ranking"
    /\ model.n_epochs = 1
    /\ Dot(pu[out.u + 1], qi[out.i + 1]) < 0
    /\ out.value = 0

\* C8: a recommend_user(u, n_rec, random_rec) call that returns gives at
\* most n_rec (item, score) pairs, none with an item of u's training
\* interactions
C8_RecommendAtMostNRecAndUnconsumed ==
    (out.op = "recommend_user" /\ out.outcome = "ok")
        => /\ Len(out.list) <= out.n_rec
           /\ \A k \in 1..Len(out.list) :
                 out.list[k][1] \notin DOMAIN dataset.train_user[out.u]

\* C8 happens: a user with two unconsumed items asked for one and got one
C8_Witness ==
    /\ out.op = "recommend_user"
    /\ out.outcome = "ok"
    /\ ~out.random_rec
    /\ out.n_rec = 1
    /\ Len(Unlabeled(dataset, out.u)) = 2
    /\ Len(out.list) = 1

\* the stored pairs of row i of the similarity matrix a conversion was given
StoredRow(i) == ser.stored[i + 1]

\* entry is a selection of row's pairs, each position taken at most once,
\* and every pair left out is no more similar than any pair taken
IsTopSelection(entry, rw) ==
    \E f \in [1..Len(entry) -> 1..Len(rw)] :
        /\ \A a, b \in 1..Len(entry) : a # b => f[a] # f[b]
        /\ \A a \in 1..Len(entry) : rw[f[a]] = entry[a]
        /\ \A q \in 1..Len(rw) :
              (\A a \in 1..Len(entry) : f[a] # q)
                  => \A a \in 1..Len(entry) : rw[q][2] <= entry[a][2]

\* C9: convert_sim_to_json(sim, k) has one entry per row; an entry holds
\* only pairs stored in its row, min(k, stored entries) of them, in order
\* of non-increasing similarity, and no pair left out is more similar than
\* a pair kept
C9_SimTopKDescending ==
    (ser.op = "convert_sim_to_json")
        => /\ DOMAIN ser.json = 0..(Len(ser.stored) - 1)
           /\ \A i \in DOMAIN ser.json :
                 /\ Len(ser.json[i]) = Min2(ser.k, Len(StoredRow(i)))
                 /\ \A a \in 1..(Len(ser.json[i]) - 1) :
                       ser.json[i][a][2] >= ser.json[i][a + 1][2]
                 /\ IsTopSelection(ser.json[i], StoredRow(i))

\* C9 happens: a row of three stored pairs, the least similar first, was cut
\* to its two most similar
C9_Witness ==
    /\ ser.op = "convert_sim_to_json"
    /\ ser.k = 2
    /\ StoredRow(0) = << <<2, -50>>, <<0, 90>>, <<1, 90>> >>
    /\ ser.json[0] = << <<0, 90>>, <<1, 90>> >>
    /\ Len(StoredRow(1)) = 1
    /\ Len(ser.json[1]) = 1

\* the (user, item, label) triples of the interaction matrix written
StoredTriples ==
    { <<u - 1, i, ser.stored[u][i]>> :
        <<u, i>> \in { q \in (1..Len(ser.stored)) \X ConsumedItems :
                         q[2] \in DOMAIN ser.stored[q[1]] } }

\* C10: user_consumed.json written from a sparse interaction matrix and read
\* back gives exactly the (user, item, label) triples stored in the matrix,
\* and a user without stored interaction gives none
C10_UserConsumedRoundTrip ==
    (ser.op = "user_consumed")
        => /\ ser.back = StoredTriples
           /\ \A u \in 1..Len(ser.stored) :
                 DOMAIN ser.stored[u] = {}
                     => \A t \in ser.back : t[1] # u - 1

\* C10 happens: user 0 without interaction, user 1 with three, one of them
\* labelled 0.0, all three read back
C10_Witness ==
    /\ ser.op = "user_consumed"
    /\ DOMAIN ser.stored[1] = {}
    /\ ser.stored[2] = (1 :> 35) @@ (10 :> 0) @@ (11 :> 50)
    /\ ser.back = { <<1, 1, 35>>, <<1, 10, 0>>, <<1, 11, 50>> }

\* the predicted scores of the two paths are within 1e-3 of each other
FxTolerance == Fx(1) \div 1000

\* C11: ALS_ranking fitted for one epoch with use_cg=True and with
\* use_cg=False on the same dataset, seed, reg and alpha gives predicted
\* scores that agree pairwise within 1e-3
C11_CgAgreesWithDirect ==
    (cmp.op = "fit")
        => \A q \in DOMAIN cmp.direct :
              /\ cmp.cg[q] - cmp.direct[q] <= FxTolerance
              /\ cmp.direct[q] - cmp.cg[q] <= FxTolerance

\* two class names that differ at most in the case of their letters
SameIgnoringCase(a, b) ==
    /\ Len(a) = Len(b)
    /\ \A k \in 1..Len(a) :
          \/ a[k] = b[k]
          \/ \E j \in 1..Len(Lowercase) : {a[k], b[k]} = {Lowercase[j], Uppercase[j]}

\* C12: vector_from_model returns a (user vectors, item vectors) pair
\* exactly when the class name is, letter case aside, one of svd, svdpp,
\* als, bpr, youtubematch, and otherwise raises ValueError and returns
\* nothing
C12_VectorDispatchIgnoresCase ==
    (ser.op = "vector_from_model")
        => IF \E w \in {W_svd, W_svdpp, W_als, W_bpr, W_youtubematch} :
                 SameIgnoringCase(ser.stored, w)
           THEN /\ ser.json.outcome = "ok"
                /\ Len(ser.json.user_vec) = Len(ModelArrays.bu)
                /\ Len(ser.json.item_vec) = Len(ModelArrays.bi)
           ELSE /\ ser.json.outcome = "ValueError"
                /\ ser.json.user_vec = <<>>
                /\ ser.json.item_vec = <<>>

\* C12 happens: a class spelled SVDpp gave the bias-led vectors
C12_Witness ==
    /\ ser.op = "vector_from_model"
    /\ ser.stored = <<"S", "V", "D", "p", "p">>
    /\ ser.json.outcome = "ok"
    /\ ser.json.user_vec = << <<1, 21>>, <<2, 22>> >>
    /\ ser.json.item_vec = << <<3, 31>>, <<4, 32>> >>

\* C13: when the export directory exists and the user declines removal
\* (no or n in any letter case), the process ends with a failure exit
\* status, the directory stays and no export step runs
C13_DeclineExitsWithFailure ==
    (tf.pc = "exited")
        => /\ Lower(tf.typed) \in {W_no, W_n}
           /\ tf.exited /\ tf.status # 0
           /\ tf.isdir
           /\ tf.exported = "none"

\* reindex is a permutation of 0..n-1 over the concatenated user and item
\* columns that lists them in ascending original position
IsReindex(reindex, user_col, item_col) ==
    LET orig == user_col \o item_col
    IN  /\ Len(reindex) = Len(orig)
        /\ Range(reindex) = 0..(Len(orig) - 1)
        /\ \A a, b \in 1..Len(orig) : a < b => orig[reindex[a] + 1] <= orig[reindex[b] + 1]

\* C14: the object of convert_data_info_to_json has each *_unique key
\* exactly when its feature group is non-empty, and sparse_col_reindex
\* (dense_col_reindex) exactly when both the user and the item sparse
\* (dense) groups are non-empty, where it is the permutation listing the
\* concatenated columns in ascending original position
C14_DataInfoKeysAndReindex ==
    (ser.op = "convert_data_info_to_json")
        => LET d == ser.stored
               res == ser.json
           IN  /\ ("user_sparse_unique" \in DOMAIN res) <=> (Len(d.user_sparse_col) > 0)
               /\ ("item_sparse_unique" \in DOMAIN res) <=> (Len(d.item_sparse_col) > 0)
               /\ ("user_dense_unique" \in DOMAIN res) <=> (Len(d.user_dense_col) > 0)
               /\ ("item_dense_unique" \in DOMAIN res) <=> (Len(d.item_dense_col) > 0)
               /\ ("sparse_col_reindex" \in DOMAIN res)
                     <=> (Len(d.user_sparse_col) > 0 /\ Len(d.item_sparse_col) > 0)
               /\ ("dense_col_reindex" \in DOMAIN res)
                     <=> (Len(d.user_dense_col) > 0 /\ Len(d.item_dense_col) > 0)
               /\ ("sparse_col_reindex" \in DOMAIN res)
                     => IsReindex(res["sparse_col_reindex"], d.user_sparse_col,
                                  d.item_sparse_col)
               /\ ("dense_col_reindex" \in DOMAIN res)
                     => IsReindex(res["dense_col_reindex"], d.user_dense_col,
                                  d.item_dense_col)

\* C14 happens: user sparse columns at positions 2, 0 and an item sparse
\* column at 1 give the reindex 1, 2, 0; with user dense columns only,
\* no dense reindex and no item dense table is written
C14_Witness ==
    /\ ser.op = "convert_data_info_to_json"
    /\ ser.stored.user_sparse_col = <<2, 0>>
    /\ ser.stored.item_sparse_col = <<1>>
    /\ ser.stored.user_dense_col = <<0>>
    /\ ser.stored.item_dense_col = <<>>
    /\ ser.json["sparse_col_reindex"] = <<1, 2, 0>>
    /\ DOMAIN ser.json = {"sparse_col_reindex", "user_sparse_unique", "item_sparse_unique",
                          "user_dense_unique"}

\* the normalisation of one sparse_col or dense_col argument
NormalCol(x) == IF x = None \/ x = Some(<<>>) THEN None ELSE x

\* the normalisation of a multi_sparse_col argument
NormalMulti(x) ==
    IF x = None \/ x = Some(<<>>) THEN None
    ELSE IF \A k \in 1..Len(x.val) : x.val[k].isList THEN x
    ELSE Some(WrapFlat(x.val))

\* C15: after a DatasetFeat.build_trainset call that got past the column
\* check, the class-level sparse_col, dense_col and multi_sparse_col are
\* the normalisation of that call's arguments: None for None or an empty
\* list, a flat multi_sparse_col wrapped into a one-element list
C15_FeatureConfigFollowsLastCall ==
    (result.op = "build_trainset" /\ result.cls \in FeatClasses
        /\ result.outcome # "ValueError")
        => /\ Lookup(attrs, result.cls, "sparse_col") = NormalCol(result.args[1])
           /\ Lookup(attrs, result.cls, "dense_col") = NormalCol(result.args[2])
           /\ Lookup(attrs, result.cls, "multi_sparse_col") = NormalMulti(result.args[3])

\* C16: build_testset and build_evalset of DatasetPure and DatasetFeat,
\* succeeding or failing, leave the class-level state as it was: the user
\* and item vocabularies, the sparse and multi-sparse vocabularies, the
\* sparse, dense and multi-sparse column configuration and train_called
C16_TestCallsLeaveClassState ==
    [][ (result'.op \in {"build_testset", "build_evalset"})
            => /\ attrs' = attrs
               /\ train_called' = train_called
               /\ sparse_unique_vals' = sparse_unique_vals
               /\ multi_sparse_unique_vals' = multi_sparse_unique_vals ]_vars

\* C16 happens: a DatasetPure.build_evalset call succeeded on a class
\* whose vocabulary was recorded, next to a DatasetFeat with sparse
\* vocabulary and configuration
C16_Witness ==
    /\ result.op = "build_evalset"
    /\ result.cls = "DatasetPure"
    /\ result.outcome = "ok"
    /\ attrs["DatasetPure"]["user_unique_vals"].tag = "val"
    /\ attrs["DatasetFeat"]["sparse_col"].tag = "val"
    /\ train_called["DatasetFeat"] = "True"
    /\ DOMAIN sparse_unique_vals # {}

\* the vocabulary visible through class c
Vocabulary(A, suv, msuv, c) ==
    <<Lookup(A, c, "user_unique_vals"), Lookup(A, c, "item_unique_vals"), suv, msuv>>

\* C17: the vocabulary recorded by build_trainset is held per subclass: a
\* build_trainset call on DatasetFeat changes none of user_unique_vals,
\* item_unique_vals, sparse_unique_vals, multi_sparse_unique_vals as seen
\* through DatasetPure, and the other way round
C17_VocabularyPerSubclass ==
    [][ \A c \in {"DatasetPure", "DatasetFeat"} :
          (result'.op = "build_trainset" /\ result'.cls # c)
              => Vocabulary(attrs', sparse_unique_vals', multi_sparse_unique_vals', c)
                    = Vocabulary(attrs, sparse_unique_vals, multi_sparse_unique_vals, c) ]_vars

\* C18: fit runs exactly n_epochs epochs in sequence; in each epoch the
\* user half (one solve per user of train_user) completes before the item
\* half starts (one solve per item of train_item), no item-factor row is
\* written during a user half and no user-factor row during an item half
C18_EpochsAndHalvesInOrder ==
    /\ [](pc = "done" => epoch = model.n_epochs)
    /\ [][ /\ (pc = "user") => (qi' = qi /\ epoch' = epoch)
           /\ (pc = "item") => (pu' = pu)
           /\ (pc = "user" /\ pc' = "user") => (row' = row + 1)
           /\ (pc = "item" /\ pc' = "item") => (row' = row + 1 /\ epoch' = epoch)
           /\ (pc = "user" /\ pc' # "user")
                 => (pc' = "item" /\ row = Len(Keys(dataset.train_user)) /\ row' = 1)
           /\ (pc = "item" /\ pc' # "item")
                 => /\ row = Len(Keys(TrainItem(dataset)))
                    /\ IF epoch < model.n_epochs
                       THEN pc' = "user" /\ epoch' = epoch + 1 /\ row' = 1
                       ELSE pc' = "done" /\ epoch' = epoch
           /\ (pc \in {"idle", "done"} /\ pc' \notin {"idle", "done"})
                 => (pc' = "user" /\ epoch' = 1 /\ row' = 1 /\ model.n_epochs >= 1) ]_vars

\* C18 happens: a fit of two epochs is over, every user and item row
\* holding a solved value
C18_Witness ==
    /\ pc = "done"
    /\ model.n_epochs = 2
    /\ epoch = 2
    /\ \A u \in 1..Len(pu) : pu[u] \in Vectors(SolveVals)
    /\ \A i \in 1..Len(qi) : qi[i] \in Vectors(SolveVals)

\* C19: in least_squares_cg every confidence, in the residual (line 411)
\* and in Ap (line 422), of the first row and of every later row, is
\* 1 + alpha * label with alpha the confidence scale passed to the call
C19_ConfidenceUsesConfiguredAlpha ==
    \A u \in cg.conf : u.alpha = "alpha"

\* C20: for every row the inner loop runs at most cg_steps times and on a
\* residual below 1e-20 stops before the next direction update; a row
\* whose first residual is below 1e-20 has no iteration and is not
\* written; each row is visited once and the call then returns
C20_CgLoopBounded ==
    /\ \A k \in 1..cg.n :
          /\ cg.iters[k] <= cg.cg_steps
          /\ cg.visits[k] <= 1
          /\ cg.updates[k] <= cg.iters[k]
          /\ cg.broke[k] => cg.updates[k] = cg.iters[k] - 1
          /\ cg.skipped[k] => (cg.iters[k] = 0 /\ ~cg.stored[k])
    /\ (cg.pc = "done") => \A k \in 1..cg.n : cg.visits[k] = 1

\* C20 happens: of three rows with cg_steps = 3, one ran all three
\* iterations, one broke off in its second, one was skipped, and the call
\* returned
C20_Witness ==
    /\ cg.pc = "done"
    /\ cg.n = 3
    /\ cg.cg_steps = 3
    /\ cg.iters = <<3, 2, 0>>
    /\ cg.broke = <<FALSE, TRUE, FALSE>>
    /\ cg.skipped = <<FALSE, FALSE, TRUE>>
    /\ cg.stored = <<TRUE, TRUE, FALSE>>

\* the score recommend_user computes for item j and the user of the call
\* (ALS.py:79-80)
RecommendScore(j) == RatingScore(pu[out.u + 1], qi[j + 1])

\* C21: recommend_user with random_rec false returns the n_rec
\* highest-scored items the user has not interacted with (all of them if
\* there are fewer), in non-increasing order of score; with random_rec
\* true every returned item has a score of at least 4 and the returned
\* items are pairwise distinct.  In ALS_rating the score is predict(u, j)
C21_RecommendTopOrHighScored ==
    (out.op = "recommend_user" /\ out.outcome = "ok")
        => LET items == [k \in 1..Len(out.list) |-> out.list[k][1]]
               unlabeled == (0..(dataset.n_items - 1)) \ DOMAIN dataset.train_user[out.u]
           IN  /\ \A a, b \in 1..Len(items) : a # b => items[a] # items[b]
               /\ \A k \in 1..Len(items) :
                     /\ items[k] \in unlabeled
                     /\ out.list[k][2] = RecommendScore(items[k])
                     /\ (model.variant = "ALS_rating")
                           => out.list[k][2] = PredictValue(model.variant, pu, qi,
                                                            default_prediction, out.u, items[k])
               /\ IF out.random_rec
                  THEN \A k \in 1..Len(items) : out.list[k][2] >= Score(4)
                  ELSE /\ Len(items) = Min2(out.n_rec, Cardinality(unlabeled))
                       /\ \A a, b \in 1..Len(items) : a < b => out.list[a][2] >= out.list[b][2]
                       /\ \A j \in unlabeled \ Range(items) :
                             \A k \in 1..Len(items) : RecommendScore(j) <= out.list[k][2]

\* C21 happens: of two unconsumed items the one asked for is the
\* higher-scored, which stood second before the sort
C21_Witness ==
    /\ out.op = "recommend_user"
    /\ out.outcome = "ok"
    /\ ~out.random_rec
    /\ out.n_rec = 1
    /\ Unlabeled(dataset, out.u) = <<0, 2>>
    /\ Len(out.list) = 1
    /\ out.list[1][1] = 2
    /\ RecommendScore(0) < out.list[1][2]

\* C22: a build_trainset call on DatasetPure or DatasetFeat that fails
\* with an error leaves the class-level state as it was before the call:
\* the vocabularies, the feature-column configuration and train_called
C22_FailedTrainsetLeavesClassState ==
    [][ (result'.op = "build_trainset" /\ result'.outcome # "ok")
            => /\ attrs' = attrs
               /\ train_called' = train_called
               /\ sparse_unique_vals' = sparse_unique_vals
               /\ multi_sparse_unique_vals' = multi_sparse_unique_vals ]_vars

\* the answer is yes or y, letter case aside
IsYes(typed) == \E w \in {W_yes, W_y} : SameIgnoringCase(typed, w)

\* the answer is no or n, letter case aside
IsNo(typed) == \E w \in {W_no, W_n} : SameIgnoringCase(typed, w)

\* C23: in save_model_tf_serving the export step starts only where the
\* target directory does not exist; an existing directory is removed only
\* on an answer of yes or y in any letter case; any answer other than yes,
\* y, no, n shows the prompt again and leaves the directory; the prompt
\* loop ends only on a yes or a no
C23_ExportOnlyWithoutDirectory ==
    /\ [](tf.pc = "export" => ~tf.isdir)
    /\ [][ /\ (tf.isdir /\ ~tf'.isdir) => (tf.pc = "prompt" /\ IsYes(tf'.typed))
           /\ (tf.pc = "prompt" /\ ~IsYes(tf'.typed) /\ ~IsNo(tf'.typed))
                 => (tf'.pc = "prompt" /\ tf'.isdir /\ tf'.exported = "none")
           /\ (tf.pc = "prompt" /\ tf'.pc # "prompt")
                 => (IsYes(tf'.typed) \/ IsNo(tf'.typed))
           /\ (tf.pc = "prompt" /\ IsYes(tf'.typed)) => (tf'.pc = "export" /\ ~tf'.isdir) ]_vars

\* C23 happens: the directory was there, two answers were not understood,
\* the third was YeS, and the export ran on the emptied path
C23_Witness ==
    /\ tf.pc = "done"
    /\ tf.prompts = 3
    /\ tf.typed = <<"Y", "e", "S">>
    /\ tf.exported = "builder"

\* the user and item vocabularies visible on class c
UserItemVocabulary(A, c) ==
    <<Lookup(A, c, "user_unique_vals"), Lookup(A, c, "item_unique_vals")>>

\* C24: on DatasetFeat, while the train_called flag visible on the class
\* is true, the user and item vocabularies visible on it are set and are
\* those of the most recent successful build_trainset (they change in no
\* other step), and the flag never goes back to false
C24_FlagImpliesVocabularyOfLastSuccess ==
    /\ [](\A c \in FeatClasses :
            LookupCalled(train_called, c)
                => /\ Lookup(attrs, c, "user_unique_vals").tag = "val"
                   /\ Lookup(attrs, c, "item_unique_vals").tag = "val")
    /\ [][ \A c \in FeatClasses :
             LookupCalled(train_called, c)
                 => /\ LookupCalled(train_called', c)
                    /\ \/ (result'.op = "build_trainset" /\ result'.cls = c
                              /\ result'.outcome = "ok")
                       \/ UserItemVocabulary(attrs', c) = UserItemVocabulary(attrs, c) ]_vars

====
